---- MODULE Spec2Model ----
(***************************************************************************)
(* A model of the Google Business Profile analyzer: the provider           *)
(* pagination loop (GBPAnalyzer._paginate_results and its copy in          *)
(* utils/analyzer_helper.py) and the orchestrator GBPAnalyzer.analyze with *)
(* its thread pool, its scraper process pool and its three fan-out         *)
(* branches.                                                               *)
(*                                                                         *)
(* Python values are tagged records: None is [t |-> "None"], a str is      *)
(* [t |-> "str", s |-> <<characters>>], a dict is [t |-> "dict", d |-> a   *)
(* record of its keys], a list is [t |-> "list", l |-> a sequence].        *)
(***************************************************************************)
EXTENDS Integers, Sequences, FiniteSets, TLC

VARIABLES
    \* ---- pagination (SpecPaginate) ----
    pg_impl,      \* which implementation runs: "GBPAnalyzer" or "analyzer_helper"
    pg,           \* the locals of _paginate_results: all_results, page_count, params, pc
    pg_log,       \* history: one entry per provider call (token sent, response received)
    \* ---- GBPAnalyzer.analyze (SpecAnalyze) ----
    inp,          \* the arguments of analyze: query, place_id
    an,           \* the locals of analyze and its position
    thr,          \* the pool workers: reviews thread, social thread, scraper processes
    calls,        \* history: the provider calls and tasks issued so far (a set)
    \* ---- the scoring and parsing functions (SpecFunctions, and SpecAnalyze's caller) ----
    sc,           \* one call of a function or one request: pc, fn (its name), arg, out
    \* ---- the job store (SpecJobs) ----
    db            \* the tables "jobs" and "GBP-results", and the history of the upserts

vars == <<pg_impl, pg, pg_log, inp, an, thr, calls, sc, db>>
pg_vars == <<pg_impl, pg, pg_log>>
an_vars == <<inp, an, thr, calls>>

(***************************************************************************)
(* Python values                                                           *)
(***************************************************************************)
NoneV == [t |-> "None"]
Str(s) == [t |-> "str", s |-> s]
Dict(d) == [t |-> "dict", d |-> d]
List(l) == [t |-> "list", l |-> l]

Num(n) == [t |-> "num", n |-> n]
EmptyDict == Dict([k \in {} |-> NoneV])

\* a dict built from a record, the keys whose value is Absent left out
Absent == [t |-> "absent"]
MkDict(r) == Dict([k \in {k \in DOMAIN r : r[k].t # "absent"} |-> r[k]])

\* bool(v)
Truthy(v) ==
    CASE v.t = "None" -> FALSE
      [] v.t = "str"  -> Len(v.s) > 0
      [] v.t = "list" -> Len(v.l) > 0
      [] v.t = "dict" -> DOMAIN v.d # {}
      [] v.t = "num"  -> v.n # 0

\* dict.get(key, default) on a dict value
Get(v, key, default) == IF key \in DOMAIN v.d THEN v.d[key] ELSE default

UpperChars == <<"A","B","C","D","E","F","G","H","I","J","K","L","M",
                "N","O","P","Q","R","S","T","U","V","W","X","Y","Z">>
LowerChars == <<"a","b","c","d","e","f","g","h","i","j","k","l","m",
                "n","o","p","q","r","s","t","u","v","w","x","y","z">>

\* str.lower() on a sequence of characters
lower(s) ==
    [i \in 1..Len(s) |->
        IF \E k \in 1..26 : UpperChars[k] = s[i]
        THEN LowerChars[CHOOSE k \in 1..26 : UpperChars[k] = s[i]]
        ELSE s[i]]

\* str.strip(): leading and trailing blanks removed
strip(s) ==
    LET idx == {i \in 1..Len(s) : s[i] # " "} IN
    IF idx = {} THEN <<>>
    ELSE LET lo == CHOOSE i \in idx : \A j \in idx : i <= j
             hi == CHOOSE i \in idx : \A j \in idx : i >= j
         IN SubSeq(s, lo, hi)

\* needle in hay (substring test)
contains(hay, needle) ==
    \E i \in 0..(Len(hay) - Len(needle)) : SubSeq(hay, i + 1, i + Len(needle)) = needle

(***************************************************************************)
(* Provider responses.  One GoogleSearch(params).get_dict() call either    *)
(* raises (transport failure) or returns a payload, a dict.                *)
(***************************************************************************)
Raises == [raises |-> TRUE, body |-> EmptyDict]
Returns(body) == [raises |-> FALSE, body |-> body]
ErrorPayload == MkDict([error |-> Str(<<"e">>)])

\* a mutation of _safe_api_call: the "error" field is not looked at
safe_api_call_ignores_error(resp) ==
    IF resp.raises THEN EmptyDict ELSE resp.body

\* _safe_api_call: {} when the call raises or the payload has an "error"
\* field, else the payload ("error" in results is false of a payload that is
\* a list of other things)
_safe_api_call(resp) ==
    IF resp.raises THEN EmptyDict
    ELSE IF resp.body.t = "dict" /\ "error" \in DOMAIN resp.body.d THEN EmptyDict
    ELSE resp.body

pagination_page_limit == 10
pagination_item_limit == 200
helper_pagination_page_limit == 1

PageLimit(impl) ==
    IF impl = "GBPAnalyzer" THEN pagination_page_limit
    ELSE helper_pagination_page_limit

\* the locals of _paginate_results on entry (params has no next_page_token)
PaginateStart ==
    [all_results |-> <<>>, page_count |-> 0, next_page_token |-> NoneV, pc |-> "loop"]

\* the head of the loop after page_count += 1: the page limit check
LimitReached(limit, st) == st.page_count + 1 > limit

AtLimit(st) == [st EXCEPT !.page_count = @ + 1, !.pc = "returned"]

\* a mutation of AfterPage: a page without a next_page_token does not end the loop
AfterPage_no_break(st, results_key, resp) ==
    LET results == _safe_api_call(resp)
        page_items == Get(results, results_key, List(<<>>))
    IN  IF ~Truthy(results) \/ ~Truthy(page_items)
        THEN [st EXCEPT !.page_count = @ + 1, !.pc = "returned"]
        ELSE [st EXCEPT !.page_count = @ + 1,
                        !.all_results = @ \o page_items.l]

\* the rest of one loop iteration, given the provider's response to the call
AfterPage(st, results_key, resp) ==
    LET results == _safe_api_call(resp)
        page_items == Get(results, results_key, List(<<>>))
        pagination == Get(results, "serpapi_pagination", EmptyDict)
    IN  IF ~Truthy(results) \/ ~Truthy(page_items)
        THEN [st EXCEPT !.page_count = @ + 1, !.pc = "returned"]
        ELSE IF "next_page_token" \in DOMAIN pagination.d
        THEN [st EXCEPT !.page_count = @ + 1,
                        !.all_results = @ \o page_items.l,
                        !.next_page_token = pagination.d.next_page_token]
        ELSE [st EXCEPT !.page_count = @ + 1,
                        !.all_results = @ \o page_items.l,
                        !.pc = "returned"]

\* _paginate_results run to its return against a scripted provider:
\* script[k] is the response to call k
RECURSIVE PaginateRun(_, _, _, _)
PaginateRun(limit, st, results_key, script) ==
    IF st.pc = "returned" THEN st
    ELSE IF LimitReached(limit, st) THEN AtLimit(st)
    ELSE PaginateRun(limit, AfterPage(st, results_key, script[st.page_count + 1]),
                     results_key, script)

\* _paginate_results(params, results_key): the list returned
_paginate_results(limit, results_key, script) ==
    PaginateRun(limit, PaginateStart, results_key, script).all_results

(***************************************************************************)
(* SpecPaginate: one call of _paginate_results, one loop iteration per     *)
(* step, against a provider that answers each call as it likes.            *)
(***************************************************************************)
PageSizes == {0, 10, 50}

\* the items of the page answered to call k, n of them
PageItems(k, n) == [i \in 1..n |-> <<k, i>>]

Token(k) == [t |-> "token", n |-> k]

\* a page payload: n items under "reviews"; a next_page_token when has_token
Page(k, n, has_token) ==
    MkDict([reviews |-> IF n = 0 THEN Absent ELSE List(PageItems(k, n)),
            serpapi_pagination |->
                IF has_token THEN MkDict([next_page_token |-> Token(k)]) ELSE Absent])

\* a payload with an "error" field beside a page of items and a token
ErrorPage(k) ==
    MkDict([error |-> Str(<<"e">>), reviews |-> List(PageItems(k, 10)),
            serpapi_pagination |-> MkDict([next_page_token |-> Token(k)])])

\* what the provider may answer to call number k
Responses(k) ==
    {Raises, Returns(ErrorPayload), Returns(ErrorPage(k))}
    \cup {Returns(Page(k, n, b)) : n \in PageSizes, b \in BOOLEAN}

PgInit ==
    /\ pg_impl \in {"GBPAnalyzer", "analyzer_helper"}
    /\ pg = PaginateStart
    /\ pg_log = <<>>

\* the loop head finds the page limit exceeded: break, return all_results
PgPageLimit ==
    /\ pg.pc = "loop"
    /\ LimitReached(PageLimit(pg_impl), pg)
    /\ pg' = AtLimit(pg)
    /\ UNCHANGED <<pg_impl, pg_log>>
    /\ UNCHANGED <<an_vars, sc, db>>

\* one loop iteration that issues a provider call
PgFetchPage ==
    /\ pg.pc = "loop"
    /\ ~LimitReached(PageLimit(pg_impl), pg)
    /\ \E resp \in Responses(Len(pg_log) + 1) :
          /\ pg' = AfterPage(pg, "reviews", resp)
          /\ pg_log' = Append(pg_log, [sent |-> pg.next_page_token, resp |-> resp])
    /\ UNCHANGED pg_impl
    /\ UNCHANGED <<an_vars, sc, db>>


(***************************************************************************)
(* Text constants (sequences of characters)                                *)
(***************************************************************************)
s_now == <<"n","o","w">>
s_today == <<"t","o","d","a","y">>
s_a_week_ago == <<"a"," ","w","e","e","k"," ","a","g","o">>
s_2_weeks_ago == <<"2"," ","w","e","e","k","s"," ","a","g","o">>
s_3_weeks_ago == <<"3"," ","w","e","e","k","s"," ","a","g","o">>
s_4_weeks_ago == <<"4"," ","w","e","e","k","s"," ","a","g","o">>
s_a_month_ago == <<"a"," ","m","o","n","t","h"," ","a","g","o">>
s_day == <<"d","a","y">>
s_owner == <<"o","w","n","e","r">>
s_Unknown == <<"U","n","k","n","o","w","n">>
s_Unknown_Business == <<"U","n","k","n","o","w","n"," ","B","u","s","i","n","e","s","s">>
s_unknown == <<"u","n","k","n","o","w","n">>

(***************************************************************************)
(* The helpers of GBPAnalyzer                                              *)
(***************************************************************************)
\* _safe_get_nested_value: data.get(key, default) if data else default, and
\* default when .get raises (data is not a dict)
_safe_get_nested_value(data, key, default) ==
    IF ~Truthy(data) THEN default
    ELSE IF data.t # "dict" THEN default
    ELSE Get(data, key, default)

VALID_MONTH_STRINGS ==
    {s_now, s_today, s_a_week_ago, s_2_weeks_ago, s_3_weeks_ago, s_4_weeks_ago,
     s_a_month_ago}

\* the body of the loop of _filter_reviews_by_recency: whether review is
\* appended (an exception, as for a review that is no dict or a date that is
\* no str, skips the review)
ReviewIsRecent(review) ==
    /\ review.t = "dict"
    /\ LET date == Get(review, "date", Str(<<>>)) IN
       /\ date.t = "str"
       /\ LET date_string == lower(date.s) IN
          /\ date_string # <<>>
          /\ \/ date_string \in VALID_MONTH_STRINGS
             \/ contains(date_string, s_day)

\* a mutation of _filter_reviews_by_recency: the date is compared as written,
\* without lower()
filter_reviews_by_recency_case_sensitive(all_reviews) ==
    LET Kept(review) ==
           /\ review.t = "dict"
           /\ LET date == Get(review, "date", Str(<<>>)) IN
              /\ date.t = "str"
              /\ date.s # <<>>
              /\ \/ date.s \in VALID_MONTH_STRINGS
                 \/ contains(date.s, s_day)
    IN SelectSeq(all_reviews, Kept)

\* _filter_reviews_by_recency(all_reviews): a list
_filter_reviews_by_recency(all_reviews) == SelectSeq(all_reviews, ReviewIsRecent)

\* result_data["recent_reviews_in_last_month_count"] as analyze sets it
\* (lines 540-546)
recent_reviews_in_last_month_count(all_reviews) ==
    Len(_filter_reviews_by_recency(all_reviews))

\* the body of the loop of _get_photo_counts: whether photo counts for the
\* owner (an exception counts it for the customers)
PhotoIsOwner(clean_business_title, photo) ==
    /\ photo.t = "dict"
    /\ LET uploader == Get(photo, "uploader", Str(s_Unknown)) IN
       /\ uploader.t = "str"
       /\ LET uploader_name == strip(lower(uploader.s)) IN
          \/ uploader_name = s_owner
          \/ contains(uploader_name, clean_business_title)

default_counts == [owner_photo_count |-> 0, customer_photo_count |-> 0]

\* a mutation of _get_photo_counts: an attribution without an uploader is
\* counted for neither side
get_photo_counts_skips_unknown(business_title, photo_attributions) ==
    IF photo_attributions = <<>> THEN default_counts
    ELSE IF ~Truthy(business_title) THEN default_counts
    ELSE IF business_title.t # "str" THEN default_counts
    ELSE LET clean_business_title == strip(lower(business_title.s))
             owners == {i \in 1..Len(photo_attributions) :
                           PhotoIsOwner(clean_business_title, photo_attributions[i])}
             named == {i \in 1..Len(photo_attributions) :
                          "uploader" \in DOMAIN photo_attributions[i].d}
         IN [owner_photo_count |-> Cardinality(owners),
             customer_photo_count |-> Cardinality(named \ owners)]

\* _get_photo_counts(business_title, photo_attributions)
_get_photo_counts(business_title, photo_attributions) ==
    IF photo_attributions = <<>> THEN default_counts
    ELSE IF ~Truthy(business_title) THEN default_counts
    ELSE IF business_title.t # "str" THEN default_counts
    ELSE LET clean_business_title == strip(lower(business_title.s))
             owners == {i \in 1..Len(photo_attributions) :
                           PhotoIsOwner(clean_business_title, photo_attributions[i])}
         IN [owner_photo_count |-> Cardinality(owners),
             customer_photo_count |-> Len(photo_attributions) - Cardinality(owners)]

\* a link of place_data["links"] that _get_social_links keeps
ValidLink(link) ==
    /\ link.t = "dict"
    /\ Truthy(Get(link, "name", NoneV))
    /\ Truthy(Get(link, "link", NoneV))

\* a profile of the knowledge graph that _fetch_knowledge_graph_socials keeps
ValidProfile(profile) ==
    /\ profile.t = "dict"
    /\ Truthy(Get(profile, "name", NoneV))
    /\ Truthy(Get(profile, "link", NoneV))

ProfileLink(profile) == MkDict([name |-> profile.d.name, link |-> profile.d.link])

\* _fetch_knowledge_graph_socials(query) given the provider's response
_fetch_knowledge_graph_socials(query, resp) ==
    IF ~Truthy(query) THEN <<>>
    ELSE LET results == _safe_api_call(resp) IN
         IF ~Truthy(results) THEN <<>>
         ELSE LET knowledge_graph == Get(results, "knowledge_graph", EmptyDict) IN
              IF knowledge_graph.t # "dict" THEN <<>>
              ELSE LET profiles == Get(knowledge_graph, "profiles", List(<<>>)) IN
                   IF profiles.t # "list" THEN <<>>
                   ELSE LET kept == SelectSeq(profiles.l, ValidProfile) IN
                        [i \in 1..Len(kept) |-> ProfileLink(kept[i])]

\* whether _get_social_links issues the knowledge graph call
SocialNeedsKG(place_data, query) ==
    LET links == IF Truthy(place_data) THEN Get(place_data, "links", List(<<>>))
                 ELSE List(<<>>)
    IN /\ links.t = "list"
       /\ SelectSeq(links.l, ValidLink) = <<>>
       /\ Truthy(query)

\* _get_social_links(place_data, query) given the provider's response to the
\* knowledge graph call (used only when the call is made)
_get_social_links(place_data, query, resp) ==
    LET links == IF Truthy(place_data) THEN Get(place_data, "links", List(<<>>))
                 ELSE List(<<>>)
    IN IF links.t # "list" THEN <<>>
       ELSE LET valid_links == SelectSeq(links.l, ValidLink) IN
            IF valid_links = <<>> /\ Truthy(query)
            THEN valid_links \o _fetch_knowledge_graph_socials(query, resp)
            ELSE valid_links

\* _fetch_all_reviews(place_id) against a scripted provider
_fetch_all_reviews(place_id, script) ==
    IF ~Truthy(place_id) THEN <<>>
    ELSE _paginate_results(pagination_page_limit, "reviews", script)

\* _fetch_all_posts(data_id, business_title) against a scripted provider
_fetch_all_posts(data_id, business_title, script) ==
    IF ~Truthy(data_id) THEN <<>>
    ELSE IF ~Truthy(business_title) THEN <<>>
    ELSE _paginate_results(pagination_page_limit, "posts", script)

\* whether _fetch_all_posts issues a provider call
PostsQueryIssued(data_id, business_title) == Truthy(data_id) /\ Truthy(business_title)

(***************************************************************************)
(* Relative dates (utils/parsing.py) and the recent-post filter             *)
(* (utils/analyzer_helper.py).  A number of days is kept in 24ths of a day *)
(* so that hours stay exact.                                               *)
(***************************************************************************)
s_moment == <<"m","o","m","e","n","t">>
s_a == <<"a">>
s_an == <<"a","n">>
s_week == <<"w","e","e","k">>
s_month == <<"m","o","n","t","h">>
s_year == <<"y","e","a","r">>
s_hour == <<"h","o","u","r">>

\* what a call gives: a number of days, float("inf"), or an exception
Days(n24) == [t |-> "days", n24 |-> n24]
Inf == [t |-> "inf"]
Raised(exc) == [t |-> "raised", exc |-> exc]

\* str.split(): the maximal runs of non-blank characters
RECURSIVE SplitFrom(_, _, _, _)
SplitFrom(s, i, word, parts) ==
    IF i > Len(s)
    THEN IF word = <<>> THEN parts ELSE Append(parts, word)
    ELSE IF s[i] = " "
    THEN SplitFrom(s, i + 1, <<>>, IF word = <<>> THEN parts ELSE Append(parts, word))
    ELSE SplitFrom(s, i + 1, Append(word, s[i]), parts)

split(s) == SplitFrom(s, 1, <<>>, <<>>)

DigitChars == <<"0","1","2","3","4","5","6","7","8","9">>
IsDigit(c) == \E d \in 1..Len(DigitChars) : DigitChars[d] = c
DigitValue(c) == (CHOOSE d \in 1..Len(DigitChars) : DigitChars[d] = c) - 1

\* int(token): an optional sign and decimal digits; anything else is a ValueError
IntSign(token) == IF token # <<>> /\ token[1] \in {"+", "-"} THEN 1 ELSE 0
IntParses(token) ==
    /\ Len(token) > IntSign(token)
    /\ \A i \in (IntSign(token) + 1)..Len(token) : IsDigit(token[i])

RECURSIVE DigitsValue(_, _, _)
DigitsValue(token, i, acc) ==
    IF i > Len(token) THEN acc
    ELSE DigitsValue(token, i + 1, acc * 10 + DigitValue(token[i]))

int(token) ==
    LET magnitude == DigitsValue(token, IntSign(token) + 1, 0)
    IN IF token[1] = "-" THEN 0 - magnitude ELSE magnitude

\* the unit branches (parsing.py lines 24-35 and 77-88)
UnitDays(date_str, num) ==
    IF contains(date_str, s_day) THEN Days(num * 24)
    ELSE IF contains(date_str, s_week) THEN Days(num * 7 * 24)
    ELSE IF contains(date_str, s_month) THEN Days(num * 30 * 24)
    ELSE IF contains(date_str, s_year) THEN Days(num * 365 * 24)
    ELSE IF contains(date_str, s_hour) THEN Days(num)
    ELSE Inf

\* the quantity and the unit, given the tokens of a string that has some
QuantityDays(date_str, parts) ==
    IF parts[1] \in {s_a, s_an} THEN UnitDays(date_str, 1)
    ELSE IF ~IntParses(parts[1]) THEN Inf
    ELSE UnitDays(date_str, int(parts[1]))

\* parsing.convert_relative_date_to_days: parts[0] is read outside the try,
\* so a string without a token raises IndexError
convert_relative_date_to_days(date_str) ==
    IF date_str.t # "str" THEN Inf
    ELSE LET lowered == lower(date_str.s) IN
         IF contains(lowered, s_now) \/ contains(lowered, s_moment) THEN Days(0)
         ELSE LET parts == split(lowered) IN
              IF parts = <<>> THEN Raised("IndexError")
              ELSE QuantityDays(lowered, parts)

\* parsing._convert_relative_date_to_days: the copy with the "if not parts" guard
_convert_relative_date_to_days(date_str) ==
    IF date_str.t # "str" THEN Inf
    ELSE LET lowered == lower(date_str.s) IN
         IF contains(lowered, s_now) \/ contains(lowered, s_moment) THEN Days(0)
         ELSE LET parts == split(lowered) IN
              IF parts = <<>> THEN Inf
              ELSE QuantityDays(lowered, parts)

\* days_ago <= 31
AtMost31Days(days_ago) == days_ago.t = "days" /\ days_ago.n24 <= 31 * 24

\* what a call of a function returns
Ret(v) == [t |-> "ret", v |-> v]

\* the loop of analyzer_helper._filter_posts_by_recency from post i on; an
\* exception of post.get or of the conversion leaves the function
RECURSIVE FilterPostsFrom(_, _, _)
FilterPostsFrom(all_posts, i, recent_post_count) ==
    IF i > Len(all_posts) THEN Ret(recent_post_count)
    ELSE LET post == all_posts[i] IN
         IF post.t # "dict" THEN Raised("AttributeError")
         ELSE LET date_str == Get(post, "posted_at_text", NoneV) IN
              IF ~Truthy(date_str) THEN FilterPostsFrom(all_posts, i + 1, recent_post_count)
              ELSE LET days_ago == convert_relative_date_to_days(date_str) IN
                   IF days_ago.t = "raised" THEN days_ago
                   ELSE FilterPostsFrom(all_posts, i + 1,
                           IF AtMost31Days(days_ago) THEN recent_post_count + 1
                           ELSE recent_post_count)

\* analyzer_helper._filter_posts_by_recency(all_posts)
_filter_posts_by_recency(all_posts) ==
    IF all_posts = <<>> THEN Ret(0) ELSE FilterPostsFrom(all_posts, 1, 0)

(***************************************************************************)
(* The scoring engine (utils/scoring.py, utils/computation.py).  A rating  *)
(* is kept in tenths of a star (Num(45) is 4.5), the star sub-score in     *)
(* tenths of a point, the weighted sum in thousandths of a point and the   *)
(* final score in tenths of a point.                                       *)
(***************************************************************************)
s_business_site == <<".","b","u","s","i","n","e","s","s",".","s","i","t","e">>
s_facebook == <<"f","a","c","e","b","o","o","k",".","c","o","m">>
s_instagram == <<"i","n","s","t","a","g","r","a","m",".","c","o","m">>
s_linkedin == <<"l","i","n","k","e","d","i","n",".","c","o","m">>

\* a mutation of _star_rating_scoring: the division by 5 is left out
star_rating_scoring_undivided(star_rating) == star_rating * 10

\* (star_rating / 5) * 10, in tenths of a point for a rating in tenths
_star_rating_scoring(star_rating) == (star_rating * 10) \div 5

_owner_images_scoring(owner_photo_count) ==
    IF owner_photo_count >= 20 THEN 10
    ELSE IF owner_photo_count <= 19 /\ owner_photo_count >= 10 THEN 8
    ELSE IF owner_photo_count <= 9 /\ owner_photo_count >= 5 THEN 5
    ELSE IF owner_photo_count <= 4 /\ owner_photo_count >= 1 THEN 2
    ELSE 0

_customer_images_scoring(customer_photo_count) ==
    IF customer_photo_count >= 75 THEN 10
    ELSE IF customer_photo_count <= 74 /\ customer_photo_count >= 50 THEN 8
    ELSE IF customer_photo_count <= 49 /\ customer_photo_count >= 30 THEN 6
    ELSE IF customer_photo_count <= 29 /\ customer_photo_count >= 15 THEN 4
    ELSE IF customer_photo_count <= 14 /\ customer_photo_count >= 5 THEN 3
    ELSE IF customer_photo_count <= 4 /\ customer_photo_count >= 1 THEN 1
    ELSE 0

_fields_filled_scoring(attributes, description) ==
    LET description_score == IF Truthy(description) THEN 2 ELSE 0
        fields_filled == attributes
        attribute_score ==
            IF fields_filled >= 15 THEN 8
            ELSE IF fields_filled <= 14 /\ fields_filled >= 10 THEN 6
            ELSE IF fields_filled <= 9 /\ fields_filled >= 5 THEN 4
            ELSE IF fields_filled <= 4 /\ fields_filled >= 1 THEN 1
            ELSE 0
    IN description_score + attribute_score

_review_recency_scoring(total_review) ==
    IF total_review >= 5 THEN 10
    ELSE IF total_review = 4 THEN 8
    ELSE IF total_review = 3 THEN 4
    ELSE IF total_review = 2 THEN 2
    ELSE IF total_review = 1 THEN 1
    ELSE 0

\* a mutation of _review_count_scoring: the top band starts above 250
review_count_scoring_gap(review_count) ==
    IF review_count > 250 THEN 10
    ELSE IF review_count <= 249 /\ review_count >= 100 THEN 8
    ELSE IF review_count <= 99 /\ review_count >= 50 THEN 6
    ELSE IF review_count <= 49 /\ review_count >= 10 THEN 3
    ELSE IF review_count <= 9 /\ review_count >= 1 THEN 1
    ELSE 0

_review_count_scoring(review_count) ==
    IF review_count >= 250 THEN 10
    ELSE IF review_count <= 249 /\ review_count >= 100 THEN 8
    ELSE IF review_count <= 99 /\ review_count >= 50 THEN 6
    ELSE IF review_count <= 49 /\ review_count >= 10 THEN 3
    ELSE IF review_count <= 9 /\ review_count >= 1 THEN 1
    ELSE 0

special_sites == {s_business_site, s_facebook, s_instagram, s_linkedin}

\* a mutation of _NAPW_completeness_scoring: the special-site branch comes first
NAPW_special_site_first(name, address, phone, website) ==
    LET items_to_check == <<name, address, phone, website>>
        existing_items == SelectSeq(items_to_check, Truthy)
    IN IF Truthy(website) /\ website.t = "str"
          /\ \E site \in special_sites : contains(website.s, site) THEN 8
       ELSE IF Len(existing_items) = 4 THEN 10
       ELSE IF Len(existing_items) = 3 THEN 6
       ELSE IF Len(existing_items) = 2 THEN 3
       ELSE IF Len(existing_items) = 1 THEN 1
       ELSE 0

\* a mutation of _NAPW_completeness_scoring: the special-site branch is taken
\* only with three fields present
NAPW_special_site_needs_three(name, address, phone, website) ==
    LET items_to_check == <<name, address, phone, website>>
        existing_items == SelectSeq(items_to_check, Truthy)
    IN IF Len(existing_items) = 4 THEN 10
       ELSE IF Len(existing_items) = 3 /\ Truthy(website) /\ website.t = "str"
               /\ \E site \in special_sites : contains(website.s, site) THEN 8
       ELSE IF Len(existing_items) = 3 THEN 6
       ELSE IF Len(existing_items) = 2 THEN 3
       ELSE IF Len(existing_items) = 1 THEN 1
       ELSE 0

_NAPW_completeness_scoring(name, address, phone, website) ==
    LET items_to_check == <<name, address, phone, website>>
        existing_items == SelectSeq(items_to_check, Truthy)
    IN IF Len(existing_items) = 4 THEN 10
       ELSE IF Truthy(website) /\ website.t = "str"
               /\ \E site \in special_sites : contains(website.s, site) THEN 8
       ELSE IF Len(existing_items) = 3 THEN 6
       ELSE IF Len(existing_items) = 2 THEN 3
       ELSE IF Len(existing_items) = 1 THEN 1
       ELSE 0

_google_post_scoring(update_count) ==
    IF update_count >= 4 THEN 10
    ELSE IF update_count = 3 THEN 7
    ELSE IF update_count = 2 THEN 5
    ELSE IF update_count = 1 THEN 2
    ELSE 0

\* business_data.get(key, default) on the record analyze returns
Field(business_data, key, default) ==
    IF key \in DOMAIN business_data THEN business_data[key] ELSE default

\* the weights of calculate_score (lines 48-54), in hundredths
w_google_post == 20
w_image == 20
w_review_recency == 20
w_star == 15
w_review_count == 15
w_fields == 5
w_napw == 5

\* a comparison or a division on a value that is no number raises TypeError
ScoreRaises(business_data) ==
    \/ Field(business_data, "rating", Num(0)).t # "num"
    \/ Field(business_data, "reviews_count", Num(0)).t # "num"
    \/ "posts_count" \notin DOMAIN business_data
    \/ "recent_reviews_in_last_month_count" \notin DOMAIN business_data

\* business_score (lines 15-72), in thousandths of a point
business_score(business_data) ==
    LET photo_count == Field(business_data, "photo_counts_by_uploader", <<>>)
        owner_photos == Field(photo_count, "owner_photo_count", 0)
        customer_photos == Field(photo_count, "customer_photo_count", 0)
        star_rating == _star_rating_scoring(Field(business_data, "rating", Num(0)).n)
        review_count == _review_count_scoring(Field(business_data, "reviews_count", Num(0)).n)
        attributes == Field(business_data, "attributes_count", 0)
        description == Field(business_data, "description", NoneV)
        name == Field(business_data, "title", NoneV)
        address == Field(business_data, "address", NoneV)
        phone == Field(business_data, "phone", NoneV)
        website == Field(business_data, "website", NoneV)
        google_post == business_data.posts_count
        review_recency == business_data.recent_reviews_in_last_month_count
        completeness_score == _fields_filled_scoring(attributes, description)
        NAPW_score == _NAPW_completeness_scoring(name, address, phone, website)
        google_post_score == _google_post_scoring(google_post)
        owner_score == _owner_images_scoring(owner_photos)
        customer_score == _customer_images_scoring(customer_photos)
        review_recency_score == _review_recency_scoring(review_recency)
        \* (owner_score + customer_score) / 2, times 0.20, in thousandths
        weighted_image_score == (owner_score + customer_score) * 5 * w_image
    IN google_post_score * 10 * w_google_post
       + weighted_image_score
       + review_recency_score * 10 * w_review_recency
       + star_rating * w_star
       + review_count * 10 * w_review_count
       + completeness_score * 10 * w_fields
       + NAPW_score * 10 * w_napw

\* a mutation of round_1: the digits after the first decimal are cut off
round_1_truncates(thousandths) == {thousandths \div 100}

\* round(business_score, 1), in tenths: the nearest tenth; when the sum of the
\* float products lies at a half, the double may fall on either side of it
round_1(thousandths) ==
    LET down == thousandths \div 100
        rest == thousandths % 100
    IN IF rest < 50 THEN {down}
       ELSE IF rest > 50 THEN {down + 1}
       ELSE {down, down + 1}

\* computation.calculate_score(business_data): the values it can give
calculate_score(business_data) ==
    IF ScoreRaises(business_data) THEN {Raised("TypeError")}
    ELSE {Ret(tenths) : tenths \in round_1(business_score(business_data))}

(***************************************************************************)
(* What the provider and the scraper may deliver to one analyze call       *)
(***************************************************************************)
id_p1 == <<"p","1">>
id_p2 == <<"p","2">>
id_d1 == <<"d","1">>
id_d2 == <<"d","2">>
s_Joe == <<"J","o","e">>
s_2_days_ago == <<"2"," ","d","a","y","s"," ","a","g","o">>
s_Today == <<"T","o","d","a","y">>
s_2_months_ago == <<"2"," ","m","o","n","t","h","s"," ","a","g","o">>

Post(text, link) == MkDict([posted_at_text |-> Str(text), link |-> Str(link)])
Updates(posts) == MkDict([posts |-> List(posts)])
DetailsPosts == <<Post(s_3_weeks_ago, <<"a">>), Post(s_2_months_ago, <<"b">>)>>
SearchPosts == <<Post(s_a_week_ago, <<"c">>)>>
QueryPosts1 == <<Post(s_2_days_ago, <<"d">>), Post(s_2_months_ago, <<"e">>)>>
QueryPosts2 == <<Post(s_a_month_ago, <<"f">>)>>

\* a search candidate (a place_results object or an item of local_results)
Candidate(place_id, data_id, updates) ==
    MkDict([place_id |-> place_id, data_id |-> data_id, updates |-> updates])

CandA == Candidate(Str(id_p1), Str(id_d1), Updates(SearchPosts))
CandB == Candidate(Str(id_p1), Absent, Absent)
CandC == Candidate(Str(id_p2), Str(id_d1), Absent)
CandNoId == Candidate(Absent, Str(id_d1), Absent)

SearchResponses ==
    {Raises, Returns(ErrorPayload), Returns(EmptyDict),
     Returns(MkDict([search_metadata |-> Str(<<"o","k">>)]))}
    \cup {Returns(MkDict([place_results |-> pr, local_results |-> lr])) :
            pr \in {Absent, EmptyDict, Str(<<"j","u","n","k">>), CandA, CandB, CandNoId},
            lr \in {Absent, List(<<>>), NoneV, List(<<CandC, CandB>>)}}

Link(name, link) == MkDict([name |-> name, link |-> link])
GoodLink == Link(Str(<<"f","b">>), Str(<<"u","1">>))
KGLink == Link(Str(<<"i","g">>), Str(<<"u","2">>))

\* the "extensions" of a place: a list of groups, each a dict of lists
Extensions ==
    List(<<MkDict([service_options |-> List(<<Str(<<"D","i","n","e","-","i","n">>), Str(<<"T","a","k","e","o","u","t">>)>>)]),
           MkDict([crowd |-> List(<<Str(<<"G","r","o","u","p","s">>)>>), popular_for |-> Str(<<"L","u","n","c","h">>)])>>)

\* a place_results object of the details response
PlaceData(title, data_id, links, updates) ==
    MkDict([title |-> title, data_id |-> data_id, links |-> links, updates |-> updates,
            address |-> Str(<<"1"," ","M","a","i","n"," ","S","t">>), phone |-> Str(<<"5","5","5">>),
            website |-> Str(<<"j","o","e",".","e","x","a","m","p","l","e">>), rating |-> Num(45), reviews |-> Num(120),
            extensions |-> Extensions])

PlaceDatas ==
    {PlaceData(Str(s_Joe), Str(id_d2), List(<<Link(Str(<<"x">>), NoneV), GoodLink>>),
               Updates(DetailsPosts)),
     PlaceData(Str(s_Joe), Absent, Absent, Absent),
     PlaceData(Absent, Str(id_d2), List(<<Str(<<"j","u","n","k">>)>>), Updates(<<>>)),
     PlaceData(NoneV, Str(id_d2), Absent, Absent),
     PlaceData(Str(s_Joe), Str(id_d2), NoneV, Absent),
     PlaceData(Str(<<>>), Str(id_d2), Absent, Absent)}

DetailsResponses ==
    {Raises, Returns(ErrorPayload), Returns(List(<<Str(<<"j","u","n","k">>)>>)),
     Returns(MkDict([search_metadata |-> Str(<<"o","k">>)]))}
    \cup {Returns(MkDict([place_results |-> pd])) : pd \in PlaceDatas}

Review(date) == MkDict([date |-> date, snippet |-> Str(<<"n","i","c","e">>)])

\* a page payload of the reviews or posts engine
ItemsPage(results_key, items, token) ==
    MkDict([k \in {results_key, "serpapi_pagination"} |->
              IF k = results_key THEN List(items)
              ELSE IF token = 0 THEN Absent
              ELSE MkDict([next_page_token |-> Token(token)])])

ReviewScripts ==
    {<<Raises>>,
     <<Returns(ItemsPage("reviews", <<Review(Str(s_2_days_ago)), Review(Str(s_2_months_ago))>>, 0))>>,
     <<Returns(ItemsPage("reviews", <<Review(Str(s_a_week_ago))>>, 1)),
       Returns(ItemsPage("reviews", <<Review(Str(s_Today)), Review(NoneV), Str(<<"j","u","n","k">>)>>, 0))>>,
     <<Returns(ItemsPage("reviews", <<Review(Str(s_a_week_ago))>>, 1)), Returns(ErrorPayload)>>}

PostScripts ==
    {<<Raises>>,
     <<Returns(ItemsPage("posts", QueryPosts1, 1)),
       Returns(ItemsPage("posts", QueryPosts2, 0))>>,
     <<Returns(ItemsPage("posts", QueryPosts1, 1)), Raises>>}

KGResponses ==
    {Raises,
     Returns(MkDict([organic_results |-> List(<<>>)])),
     Returns(MkDict([knowledge_graph |->
         MkDict([profiles |-> List(<<Link(Str(<<"i","g">>), Str(<<"u","2">>)), Link(NoneV, Str(<<"u","3">>))>>)])]))}

Attribution(uploader) == MkDict([uploader |-> uploader])

s_Error == <<"E","r","r","o","r">>

\* PhotoScraper.get_attributions_by_navigation: the list it returns, given
\* whether the navigation failed (before any photo was processed: the except
\* branch of lines 265-278) and the attributions of the photos processed
get_attributions_by_navigation(failed, attributions) ==
    IF failed /\ attributions = <<>> THEN <<Attribution(Str(s_Error))>> ELSE attributions

s_Owner == <<"O","w","n","e","r">>

\* the first selector of SELECTORS["uploader_name"] whose inner_text is read
\* and is not blank (a read that raises is NoneV), 0 for none
FirstNamed(names) ==
    LET named == {i \in 1..Len(names) : names[i].t = "str" /\ strip(names[i].s) # <<>>}
    IN IF named = {} THEN 0 ELSE CHOOSE i \in named : \A j \in named : i <= j

\* the first line of the container's text that is not blank (the text is
\* given by its lines; NoneV: inner_text raises), 0 for none
FirstLine(all_text) ==
    IF all_text.t # "list" THEN 0
    ELSE LET filled == {i \in 1..Len(all_text.l) : strip(all_text.l[i]) # <<>>}
         IN IF filled = {} THEN 0 ELSE CHOOSE i \in filled : \A j \in filled : i <= j

\* PhotoScraper._extract_uploader_name(uploader_container): a str
_extract_uploader_name(uploader_container) ==
    IF FirstNamed(uploader_container.names) # 0
    THEN Str(strip(uploader_container.names[FirstNamed(uploader_container.names)].s))
    ELSE IF FirstLine(uploader_container.all_text) # 0
    THEN Str(strip(uploader_container.all_text.l[FirstLine(uploader_container.all_text)]))
    ELSE Str(s_Owner)

\* PhotoScraper._process_single_photo(page, thumbnail, photo_index): the click
\* and the search for the uploader container end "ok"/"found", raise
\* PlaywrightTimeoutError ("timeout", which _try_find_element turns into no
\* container: "none") or raise another exception ("error")
_process_single_photo(thumbnail) ==
    IF thumbnail.click = "timeout" THEN Attribution(Str(s_Owner))
    ELSE IF thumbnail.click = "error" THEN Attribution(Str(s_Error))
    ELSE IF thumbnail.container = "error" THEN Attribution(Str(s_Error))
    ELSE IF thumbnail.container = "none" THEN Attribution(Str(s_Owner))
    ELSE Attribution(_extract_uploader_name(thumbnail))

PHOTO_CHECK_LIMIT == 100

\* the loop over the thumbnails of get_attributions_by_navigation (lines
\* 248-259): the attributions in the order of the thumbnails
ProcessThumbnails(thumbnails) ==
    LET limited == SubSeq(thumbnails, 1,
                          IF Len(thumbnails) < PHOTO_CHECK_LIMIT THEN Len(thumbnails)
                          ELSE PHOTO_CHECK_LIMIT)
    IN [i \in 1..Len(limited) |-> _process_single_photo(limited[i])]

\* the attributions of the photos a run without failure may process
ScraperResults ==
    {<<>>,
     <<Attribution(Str(<<"O","w","n","e","r">>)), Attribution(Str(<<"A","n","n">>))>>,
     <<Attribution(Str(<<" ","J","O","E"," ","C","a","f","e">>)), Attribution(Absent), Attribution(Str(<<"B","o">>))>>}

Inputs == [query : {NoneV, Str(s_Joe)}, place_id : {NoneV, Str(id_p1)}]

(***************************************************************************)
(* GBPAnalyzer.analyze                                                     *)
(***************************************************************************)
Branches == {"reviews", "social", "photos"}

\* the locals of analyze on entry
AnStart ==
    [pc |-> "start",
     current_place_id |-> NoneV, initial_results |-> NoneV,
     initial_search_result |-> NoneV, details_results |-> NoneV,
     place_data |-> NoneV, data_id |-> NoneV, business_title |-> NoneV,
     futures |-> {}, all_reviews |-> <<>>, social_links |-> <<>>,
     photo_attributions |-> <<>>, all_posts |-> List(<<>>),
     result |-> NoneV,
     \* history: which handler caught an exception, which result() calls timed
     \* out, and how the call ended
     exc |-> "none", timed_out |-> {}, outcome |-> "running"]

ThrStart ==
    [reviews |-> [st |-> "idle", val |-> <<>>],
     social  |-> [st |-> "idle", val |-> <<>>],
     photos  |-> [st |-> "idle", val |-> <<>>],
     scraper |-> [st |-> "idle", val |-> <<>>, failed |-> FALSE]]

E_NoInput == "Internal Error: Either query or place_id must be provided."
E_NoResults == "No results found for query"
E_NoGBP == "No GBP found for query"
E_NoPlaceId == "Could not extract place_id from search results."
E_SearchFailed == "Search failed"
E_NoDetails == "Could not fetch detailed data for place_id"
E_DetailsFailed == "Failed to fetch place details"
E_AnalysisFailed == "Analysis failed"

Failure(error) == [success |-> FALSE, error |-> error]

\* a return statement of analyze
Return(st, result) == [st EXCEPT !.pc = "done", !.outcome = "returned", !.result = result]

\* default_result["data"]
default_data(place_id) ==
    [title |-> Str(s_Unknown_Business),
     place_id |-> IF Truthy(place_id) THEN place_id ELSE Str(s_unknown),
     address |-> NoneV, phone |-> NoneV, website |-> NoneV,
     rating |-> Num(0), reviews_count |-> Num(0), social_links |-> <<>>,
     recent_reviews_in_last_month_count |-> 0, posts_count |-> 0,
     photo_counts_by_uploader |-> default_counts, total_photos_analyzed |-> 0]

\* except Exception around the initial search (lines 393-395)
SearchHandler(st) == Return([st EXCEPT !.exc = "search"], Failure(E_SearchFailed))

\* except Exception around the details fetch (lines 417-422)
DetailsHandler(st) == Return([st EXCEPT !.exc = "details"], Failure(E_DetailsFailed))

\* a mutation of TopLevelHandler: the exception is raised again
TopLevelHandler_reraises(st, place_id) ==
    [st EXCEPT !.exc = "top", !.pc = "done", !.outcome = "raised"]

\* except Exception around the whole body (lines 574-581)
TopLevelHandler(st, place_id) ==
    Return([st EXCEPT !.exc = "top"],
           [success |-> FALSE, error |-> E_AnalysisFailed, data |-> default_data(place_id)])

\* initial_results.get("place_results") or
\*   (initial_results.get("local_results", [])[0:1] or [None])[0];
\* SearchCandidateRaises: slicing a local_results that is no list raises
SearchCandidateRaises(initial_results) ==
    /\ ~Truthy(Get(initial_results, "place_results", NoneV))
    /\ Get(initial_results, "local_results", List(<<>>)).t # "list"

\* a mutation of SearchCandidate: local_results is looked at first
SearchCandidate_local_first(initial_results) ==
    LET place_results == Get(initial_results, "place_results", NoneV)
        local_results == Get(initial_results, "local_results", List(<<>>))
    IN IF local_results.t = "list" /\ local_results.l # <<>> THEN local_results.l[1]
       ELSE IF Truthy(place_results) THEN place_results
       ELSE NoneV

SearchCandidate(initial_results) ==
    LET place_results == Get(initial_results, "place_results", NoneV)
        local_results == Get(initial_results, "local_results", List(<<>>))
    IN IF Truthy(place_results) THEN place_results
       ELSE IF local_results.l # <<>> THEN local_results.l[1]
       ELSE NoneV

\* the place_id resolution by search (lines 359-395), given the response
Search(st, resp) ==
    LET initial_results == _safe_api_call(resp)
        st1 == [st EXCEPT !.initial_results = initial_results]
    IN IF ~Truthy(initial_results) THEN Return(st1, Failure(E_NoResults))
       ELSE IF SearchCandidateRaises(initial_results) THEN SearchHandler(st1)
       ELSE LET initial_search_result == SearchCandidate(initial_results)
                st2 == [st1 EXCEPT !.initial_search_result = initial_search_result]
            IN IF ~Truthy(initial_search_result) THEN Return(st2, Failure(E_NoGBP))
               ELSE IF initial_search_result.t # "dict" THEN SearchHandler(st2)
               ELSE LET current_place_id == Get(initial_search_result, "place_id", NoneV)
                    IN IF ~Truthy(current_place_id)
                       THEN Return(st2, Failure(E_NoPlaceId))
                       ELSE [st2 EXCEPT !.current_place_id = current_place_id,
                                        !.pc = "details"]

\* a mutation of DetailsUnavailable: the default record is returned with the error
DetailsUnavailable_with_data(st) ==
    Return(st, [success |-> FALSE, error |-> E_NoDetails, data |-> default_data(NoneV)])

\* the return for an empty place_data (lines 412-416)
DetailsUnavailable(st) == Return(st, Failure(E_NoDetails))

\* the details fetch and the basic info (lines 402-456), given the response
Details(st, place_id, resp) ==
    LET details_results == _safe_api_call(resp)
        st1 == [st EXCEPT !.details_results = details_results]
    IN IF details_results.t # "dict" THEN DetailsHandler(st1)
       ELSE LET place_data == Get(details_results, "place_results", EmptyDict) IN
            IF ~Truthy(place_data) THEN DetailsUnavailable(st1)
            ELSE LET own_id == _safe_get_nested_value(place_data, "data_id", NoneV)
                     data_id ==
                        IF Truthy(own_id) THEN own_id
                        ELSE IF Truthy(st.initial_search_result)
                        THEN _safe_get_nested_value(st.initial_search_result, "data_id", NoneV)
                        ELSE NoneV
                     business_title ==
                        _safe_get_nested_value(place_data, "title", Str(s_Unknown_Business))
                     st2 == [st1 EXCEPT !.place_data = place_data, !.data_id = data_id,
                                        !.business_title = business_title]
                 IN \* business_title.replace(' ', '+') raises on a title that is no str
                    IF business_title.t # "str" THEN TopLevelHandler(st2, place_id)
                    ELSE [st2 EXCEPT !.pc = "fanout"]

\* a mutation of EmbeddedPosts: the posts of the search result are appended
\* to those of the details response
EmbeddedPosts_merged(st) ==
    LET updates == _safe_get_nested_value(st.place_data, "updates", EmptyDict)
        from_details ==
            IF Truthy(updates) THEN _safe_get_nested_value(updates, "posts", List(<<>>))
            ELSE List(<<>>)
        updates_from_initial ==
            _safe_get_nested_value(st.initial_search_result, "updates", EmptyDict)
        from_initial ==
            IF Truthy(updates_from_initial)
            THEN _safe_get_nested_value(updates_from_initial, "posts", List(<<>>))
            ELSE List(<<>>)
    IN List(from_details.l \o from_initial.l)

\* the posts the details response or the search result embeds (lines 520-531)
EmbeddedPosts(st) ==
    LET updates == _safe_get_nested_value(st.place_data, "updates", EmptyDict)
        from_details ==
            IF Truthy(updates) THEN _safe_get_nested_value(updates, "posts", List(<<>>))
            ELSE List(<<>>)
        updates_from_initial ==
            _safe_get_nested_value(st.initial_search_result, "updates", EmptyDict)
    IN IF ~Truthy(from_details) /\ Truthy(st.initial_search_result)
       THEN IF Truthy(updates_from_initial)
            THEN _safe_get_nested_value(updates_from_initial, "posts", List(<<>>))
            ELSE from_details
       ELSE from_details

\* result_data as returned (lines 435-451 and 539-567)
ResultData(st) ==
    [title |-> st.business_title,
     place_id |-> st.current_place_id,
     address |-> _safe_get_nested_value(st.place_data, "address", NoneV),
     phone |-> _safe_get_nested_value(st.place_data, "phone", NoneV),
     website |-> _safe_get_nested_value(st.place_data, "website", NoneV),
     rating |-> _safe_get_nested_value(st.place_data, "rating", Num(0)),
     reviews_count |-> _safe_get_nested_value(st.place_data, "reviews", Num(0)),
     social_links |-> st.social_links,
     recent_reviews_in_last_month_count |-> recent_reviews_in_last_month_count(st.all_reviews),
     posts_count |-> IF Truthy(st.all_posts) THEN Len(st.all_posts.l) ELSE 0,
     photo_counts_by_uploader |-> _get_photo_counts(st.business_title, st.photo_attributions),
     total_photos_analyzed |-> Len(st.photo_attributions)]

\* ---- the steps of analyze ----

\* place_id given: no search (lines 397-400)
AnDirect ==
    /\ an.pc = "start"
    /\ Truthy(inp.place_id)
    /\ an' = [an EXCEPT !.current_place_id = inp.place_id, !.pc = "details"]
    /\ UNCHANGED <<inp, thr, calls>>
    /\ UNCHANGED <<pg_vars, sc, db>>

\* neither place_id nor query (lines 353-357)
AnNoInput ==
    /\ an.pc = "start"
    /\ ~Truthy(inp.place_id)
    /\ ~Truthy(inp.query)
    /\ an' = Return(an, Failure(E_NoInput))
    /\ UNCHANGED <<inp, thr, calls>>
    /\ UNCHANGED <<pg_vars, sc, db>>

AnSearch ==
    /\ an.pc = "start"
    /\ ~Truthy(inp.place_id)
    /\ Truthy(inp.query)
    /\ \E resp \in SearchResponses : an' = Search(an, resp)
    /\ calls' = calls \cup {"search"}
    /\ UNCHANGED <<inp, thr>>
    /\ UNCHANGED <<pg_vars, sc, db>>

AnDetails ==
    /\ an.pc = "details"
    /\ \E resp \in DetailsResponses : an' = Details(an, inp.place_id, resp)
    /\ calls' = calls \cup {"details"}
    /\ UNCHANGED <<inp, thr>>
    /\ UNCHANGED <<pg_vars, sc, db>>

\* the pools are created and the three tasks submitted (lines 465-491); a
\* submit that raises leaves its branch out of futures
Submit(st, submitted) == [st EXCEPT !.futures = submitted, !.pc = "collect_reviews"]

AnSubmit ==
    /\ an.pc = "fanout"
    /\ \E submitted \in SUBSET Branches :
          /\ an' = Submit(an, submitted)
          /\ thr' = [thr EXCEPT
                        !.reviews.st = IF "reviews" \in submitted THEN "running" ELSE @,
                        !.social.st = IF "social" \in submitted THEN "running" ELSE @,
                        !.photos.st = IF "photos" \in submitted THEN "running" ELSE @]
          /\ calls' = calls \cup {IF b = "photos" THEN "scraper_task" ELSE b : b \in submitted}
    /\ UNCHANGED inp
    /\ UNCHANGED <<pg_vars, sc, db>>

\* creating a pool raises: caught at lines 515-516, the branches keep their defaults
AnPoolsFail ==
    /\ an.pc = "fanout"
    /\ an' = [an EXCEPT !.pc = "posts"]
    /\ UNCHANGED <<inp, thr, calls>>
    /\ UNCHANGED <<pg_vars, sc, db>>

\* a mutation of Collected: the branches share one list, which the result of
\* the last branch collected replaces
Collected_shared_list(st, branch, value) ==
    CASE branch = "reviews" -> [st EXCEPT !.all_reviews = value, !.pc = "collect_social"]
      [] branch = "social"  -> [st EXCEPT !.social_links = value, !.all_reviews = <<>>,
                                          !.pc = "collect_photos"]
      [] branch = "photos"  -> [st EXCEPT !.photo_attributions = value, !.social_links = <<>>,
                                          !.pc = "pool_exit"]

\* future.result(timeout) of an API branch returns (or the branch was not submitted)
Collected(st, branch, value) ==
    CASE branch = "reviews" -> [st EXCEPT !.all_reviews = value, !.pc = "collect_social"]
      [] branch = "social"  -> [st EXCEPT !.social_links = value, !.pc = "collect_photos"]
      [] branch = "photos"  -> [st EXCEPT !.photo_attributions = value, !.pc = "pool_exit"]

\* a mutation of TimedOut: the TimeoutError is not caught at the branch and
\* ends the analysis
TimedOut_aborts(st, branch) ==
    Return([st EXCEPT !.timed_out = @ \cup {branch}],
           [success |-> FALSE, error |-> E_AnalysisFailed, data |-> default_data(NoneV)])

\* future.result(timeout) raises TimeoutError: caught, the branch's default is used
TimedOut(st, branch) ==
    LET st1 == [st EXCEPT !.timed_out = @ \cup {branch}] IN Collected(st1, branch, <<>>)

AnCollectReviews ==
    /\ an.pc = "collect_reviews"
    /\ \/ "reviews" \notin an.futures /\ an' = [an EXCEPT !.pc = "collect_social"]
       \/ "reviews" \in an.futures /\ thr.reviews.st = "done"
          /\ an' = Collected(an, "reviews", thr.reviews.val)
    /\ UNCHANGED <<inp, thr, calls>>
    /\ UNCHANGED <<pg_vars, sc, db>>

AnReviewsTimeout ==
    /\ an.pc = "collect_reviews"
    /\ "reviews" \in an.futures
    /\ thr.reviews.st = "running"
    /\ an' = TimedOut(an, "reviews")
    /\ UNCHANGED <<inp, thr, calls>>
    /\ UNCHANGED <<pg_vars, sc, db>>

AnCollectSocial ==
    /\ an.pc = "collect_social"
    /\ \/ "social" \notin an.futures /\ an' = [an EXCEPT !.pc = "collect_photos"]
       \/ "social" \in an.futures /\ thr.social.st = "done"
          /\ an' = Collected(an, "social", thr.social.val)
    /\ UNCHANGED <<inp, thr, calls>>
    /\ UNCHANGED <<pg_vars, sc, db>>

AnSocialTimeout ==
    /\ an.pc = "collect_social"
    /\ "social" \in an.futures
    /\ thr.social.st = "running"
    /\ an' = TimedOut(an, "social")
    /\ UNCHANGED <<inp, thr, calls>>
    /\ UNCHANGED <<pg_vars, sc, db>>

\* the photos future returns, or raises BrokenProcessPool (caught: default)
AnCollectPhotos ==
    /\ an.pc = "collect_photos"
    /\ \/ "photos" \notin an.futures /\ an' = [an EXCEPT !.pc = "pool_exit"]
       \/ "photos" \in an.futures /\ thr.photos.st = "done"
          /\ an' = Collected(an, "photos", thr.photos.val)
       \/ "photos" \in an.futures /\ thr.photos.st = "broken"
          /\ an' = Collected(an, "photos", <<>>)
    /\ UNCHANGED <<inp, thr, calls>>
    /\ UNCHANGED <<pg_vars, sc, db>>

AnPhotosTimeout ==
    /\ an.pc = "collect_photos"
    /\ "photos" \in an.futures
    /\ thr.photos.st \in {"running", "waiting", "exiting"}
    /\ an' = TimedOut(an, "photos")
    /\ UNCHANGED <<inp, thr, calls>>
    /\ UNCHANGED <<pg_vars, sc, db>>

\* a pool worker that still runs its task
Busy(worker) == worker.st \in {"running", "waiting", "exiting"}

\* the with block ends: both executors' __exit__ is shutdown(wait=True),
\* which returns once every submitted task has finished
PoolsIdle(t) == ~Busy(t.reviews) /\ ~Busy(t.social) /\ ~Busy(t.photos)

AnPoolExit ==
    /\ an.pc = "pool_exit"
    /\ PoolsIdle(thr)
    /\ an' = [an EXCEPT !.pc = "posts"]
    /\ UNCHANGED <<inp, thr, calls>>
    /\ UNCHANGED <<pg_vars, sc, db>>

\* the posts extraction (lines 518-537)
AnPosts ==
    /\ an.pc = "posts"
    /\ LET embedded == EmbeddedPosts(an) IN
       IF ~Truthy(embedded) /\ Truthy(an.data_id)
       THEN /\ \E script \in PostScripts :
                 an' = [an EXCEPT !.pc = "process",
                           !.all_posts = List(_fetch_all_posts(an.data_id, an.business_title, script))]
            /\ calls' = calls \cup
                 (IF PostsQueryIssued(an.data_id, an.business_title) THEN {"posts"} ELSE {})
       ELSE /\ an' = [an EXCEPT !.pc = "process", !.all_posts = embedded]
            /\ UNCHANGED calls
    /\ UNCHANGED <<inp, thr>>
    /\ UNCHANGED <<pg_vars, sc, db>>

\* the results are processed and returned (lines 539-572)
AnProcess ==
    /\ an.pc = "process"
    /\ an' = Return(an, [success |-> TRUE, data |-> ResultData(an)])
    /\ UNCHANGED <<inp, thr, calls>>
    /\ UNCHANGED <<pg_vars, sc, db>>

\* ---- the pool workers ----

\* the reviews thread runs _fetch_all_reviews to its return
ReviewsRun ==
    /\ thr.reviews.st = "running"
    /\ \E script \in ReviewScripts :
          thr' = [thr EXCEPT !.reviews =
                     [st |-> "done", val |-> _fetch_all_reviews(an.current_place_id, script)]]
    /\ calls' = calls \cup {"reviews_query"}
    /\ UNCHANGED <<inp, an>>
    /\ UNCHANGED <<pg_vars, sc, db>>

\* the social thread runs _get_social_links to its return
SocialRun ==
    /\ thr.social.st = "running"
    /\ \E resp \in KGResponses :
          thr' = [thr EXCEPT !.social =
                     [st |-> "done",
                      val |-> _get_social_links(an.place_data, an.business_title, resp)]]
    /\ calls' = calls \cup
          (IF SocialNeedsKG(an.place_data, an.business_title) THEN {"kg_query"} ELSE {})
    /\ UNCHANGED <<inp, an>>
    /\ UNCHANGED <<pg_vars, sc, db>>

\* the scraper process runs _run_photo_scraper up to future.result(timeout=300):
\* the guard returns [], or creating the inner pool raises (caught: []), or
\* run_photo_scraper_process is submitted to the inner pool
PhotosStart ==
    /\ thr.photos.st = "running"
    /\ \/ thr' = [thr EXCEPT !.photos = [st |-> "done", val |-> <<>>]]
          /\ UNCHANGED calls
       \/ /\ Truthy(an.business_title)
          /\ thr' = [thr EXCEPT !.photos.st = "waiting", !.scraper.st = "running"]
          /\ calls' = calls \cup {"scraper"}
    /\ UNCHANGED <<inp, an>>
    /\ UNCHANGED <<pg_vars, sc, db>>

\* future.result(timeout=300) returns the scraper's list or raises its
\* exception (caught: [])
PhotosResult ==
    /\ thr.photos.st = "waiting"
    /\ thr.scraper.st \in {"done", "raised"}
    /\ thr' = [thr EXCEPT !.photos =
                 [st |-> "exiting",
                  val |-> IF thr.scraper.st = "done" THEN thr.scraper.val ELSE <<>>]]
    /\ UNCHANGED <<inp, an, calls>>
    /\ UNCHANGED <<pg_vars, sc, db>>

\* future.result(timeout=300) raises TimeoutError (caught: [])
PhotosInnerTimeout ==
    /\ thr.photos.st = "waiting"
    /\ thr.scraper.st \in {"running", "hung"}
    /\ thr' = [thr EXCEPT !.photos = [st |-> "exiting", val |-> <<>>]]
    /\ UNCHANGED <<inp, an, calls>>
    /\ UNCHANGED <<pg_vars, sc, db>>

\* the inner with block ends: shutdown(wait=True) returns once the scraper
\* worker has finished; _run_photo_scraper returns
ScraperFinished(t) == t.scraper.st \in {"done", "raised"}

PhotosReturn ==
    /\ thr.photos.st = "exiting"
    /\ ScraperFinished(thr)
    /\ thr' = [thr EXCEPT !.photos.st = "done"]
    /\ UNCHANGED <<inp, an, calls>>
    /\ UNCHANGED <<pg_vars, sc, db>>

\* the scraper_executor worker dies while it waits: the photos future
\* raises BrokenProcessPool
PhotosBroken ==
    /\ thr.photos.st = "waiting"
    /\ thr' = [thr EXCEPT !.photos = [st |-> "broken", val |-> <<>>]]
    /\ UNCHANGED <<inp, an, calls>>
    /\ UNCHANGED <<pg_vars, sc, db>>

\* run_photo_scraper_process returns the list of get_attributions_by_navigation:
\* the photos it processed, or what it gives when the navigation failed
ScraperDone ==
    /\ thr.scraper.st = "running"
    /\ \/ \E attributions \in ScraperResults :
             thr' = [thr EXCEPT !.scraper =
                        [st |-> "done", failed |-> FALSE,
                         val |-> get_attributions_by_navigation(FALSE, attributions)]]
       \/ thr' = [thr EXCEPT !.scraper =
                     [st |-> "done", failed |-> TRUE,
                      val |-> get_attributions_by_navigation(TRUE, <<>>)]]
    /\ UNCHANGED <<inp, an, calls>>
    /\ UNCHANGED <<pg_vars, sc, db>>

\* run_photo_scraper_process raises
ScraperRaise ==
    /\ thr.scraper.st = "running"
    /\ thr' = [thr EXCEPT !.scraper.st = "raised"]
    /\ UNCHANGED <<inp, an, calls>>
    /\ UNCHANGED <<pg_vars, sc, db>>

\* the browser hangs: run_photo_scraper_process never returns
ScraperHang ==
    /\ thr.scraper.st = "running"
    /\ thr' = [thr EXCEPT !.scraper.st = "hung"]
    /\ UNCHANGED <<inp, an, calls>>
    /\ UNCHANGED <<pg_vars, sc, db>>

\* the caller scores the record of a successful analysis (main.py lines 32-38)
CallerScore ==
    /\ an.pc = "done"
    /\ an.result.success = TRUE
    /\ sc.pc = "idle"
    /\ \E out \in calculate_score(an.result.data) :
          sc' = [pc |-> "returned", fn |-> "calculate_score",
                 arg |-> an.result.data, out |-> out]
    /\ UNCHANGED <<inp, an, thr, calls>>
    /\ UNCHANGED <<pg_vars, db>>

NextAnalyze ==
    \/ AnDirect \/ AnNoInput \/ AnSearch \/ AnDetails
    \/ AnSubmit \/ AnPoolsFail
    \/ AnCollectReviews \/ AnReviewsTimeout
    \/ AnCollectSocial \/ AnSocialTimeout
    \/ AnCollectPhotos \/ AnPhotosTimeout
    \/ AnPoolExit \/ AnPosts \/ AnProcess
    \/ ReviewsRun \/ SocialRun
    \/ PhotosStart \/ PhotosResult \/ PhotosInnerTimeout \/ PhotosReturn \/ PhotosBroken
    \/ ScraperDone \/ ScraperRaise \/ ScraperHang
    \/ CallerScore

(***************************************************************************)
(* The job store: services/job_status.py, services/supabase.py and the     *)
(* router api/v1/routers/status.py. The store is a Supabase project with   *)
(* the tables "jobs" (id, place_id, status, created_at) and "GBP-results"  *)
(* (one row per place_id). Each call of the client is one atomic step and  *)
(* may raise.                                                              *)
(***************************************************************************)
\* both tables empty; upserted is history: the record last upserted for each
\* place_id
DbStart == [jobs |-> <<>>, results |-> <<>>, upserted |-> {}]

\* supabase.table("jobs").select("*").eq("id", job_id).execute().data
SelectJobs(jobs, job_id) ==
    LET Matches(row) == row.id = job_id IN SelectSeq(jobs, Matches)

\* supabase.table("GBP-results").select("*").eq("place_id", place_id).execute().data
SelectResults(results, place_id) ==
    LET Matches(row) == row.d["place_id"] = place_id IN SelectSeq(results, Matches)

\* whether check_job_status goes on to read the result row (lines 40-45)
NeedsDataLookup(job_result) ==
    /\ ~job_result.raises
    /\ job_result.body.l # <<>>
    /\ job_result.body.l[1].status = "Analysis Finished"
    /\ Truthy(job_result.body.l[1].place_id)

\* job_status.check_job_status(job_id), given what the lookup of the job row
\* and the lookup of the result row do (the second is made only when
\* NeedsDataLookup)
check_job_status(job_id, job_result, data_result) ==
    IF job_result.raises
    THEN [status |-> "Analysis Failed", job_id |-> job_id, place_id |-> Str(<<>>)]
    ELSE IF job_result.body.l = <<>>
    THEN [status |-> "not_found", job_id |-> job_id, place_id |-> Str(<<>>)]
    ELSE LET job == job_result.body.l[1]
             business_data ==
                IF job.status = "Analysis Finished" /\ Truthy(job.place_id)
                THEN IF data_result.raises THEN NoneV
                     ELSE IF data_result.body.l # <<>> THEN data_result.body.l[1]
                     ELSE NoneV
                ELSE NoneV
         IN [status |-> job.status, job_id |-> job_id, place_id |-> job.place_id,
             data |-> business_data]

\* job_status.update_job_status(job_id, status): the table after the call and
\* what is returned ("None": the except branch returns nothing)
update_job_status(jobs, job_id, status, raises) ==
    IF raises THEN [jobs |-> jobs, ret |-> "None"]
    ELSE [jobs |-> [i \in 1..Len(jobs) |->
                       IF jobs[i].id = job_id THEN [jobs[i] EXCEPT !.status = status]
                       ELSE jobs[i]],
          ret |-> IF SelectJobs(jobs, job_id) # <<>> THEN "True" ELSE "False"]

\* a mutation of insert_data: a plain insert, which adds a row
insert_data_appends(results, data, raises) ==
    IF raises THEN results ELSE Append(results, data)

\* supabase.insert_data(table, data): upsert on_conflict="place_id"; an
\* exception is logged and nothing is written
insert_data(results, data, raises) ==
    IF raises THEN results
    ELSE IF SelectResults(results, data.d["place_id"]) # <<>>
    THEN [i \in 1..Len(results) |->
             IF results[i].d["place_id"] = data.d["place_id"] THEN data ELSE results[i]]
    ELSE Append(results, data)

\* supabase.insert_job_and_return_id(table, place_id, status): the store
\* gives the new row its id
insert_job_and_return_id(jobs, place_id, status, raises) ==
    IF raises THEN [jobs |-> jobs, ret |-> NoneV]
    ELSE [jobs |-> Append(jobs, [id |-> Len(jobs) + 1, place_id |-> place_id,
                                 status |-> status]),
          ret |-> Num(Len(jobs) + 1)]

\* ---- the router ----
allowed_statuses ==
    {"Pending", "Analysis Started", "Analyzing", "Writing the Analysis",
     "Analysis Finished", "Analysis Failed"}

status_message(status) ==
    CASE status = "Analysis Finished" -> "Analysis completed successfully"
      [] status = "Analyzing" -> "Analysis is currently in progress"
      [] status = "Analysis Started" -> "Analysis has been started"
      [] status = "Writing the Analysis" -> "Analysis is being finalized"
      [] status = "Pending" -> "Analysis is pending to start"
      [] status = "Analysis Failed" -> "Analysis failed due to an error"
      [] status = "not_found" -> "Job not found"
      [] OTHER -> "Unknown status"

HTTPException(status_code, detail) ==
    [t |-> "HTTPException", status_code |-> status_code, detail |-> detail]

\* the response model of the status routes: its fields as they are passed
JobstatusResponse(status, job_id, message, place_id, data) ==
    [t |-> "JobstatusResponse", status |-> status, job_id |-> job_id,
     message |-> message, place_id |-> place_id, data |-> data]

\* GET /check-status/{job_id}, given the result of check_job_status
get_job_status(job_id, result) ==
    LET status == result.status
        data == IF "data" \in DOMAIN result THEN result.data ELSE NoneV
        message ==
           IF status = "Analysis Finished" /\ Truthy(data)
           THEN <<"Analysis completed for", Get(data, "title", Str(<<"U","n","k","n","o","w","n"," ","B","u","s","i","n","e","s","s"," ","N","a","m","e">>)),
                  "Overall score", Get(data, "score", Str(<<"N","/","A">>))>>
           ELSE <<status_message(status)>>
    IN IF status = "not_found" THEN HTTPException(404, "Job not found")
       ELSE JobstatusResponse(status, result.job_id, message, result.place_id, data)

\* ---- the requests and the calls made on the store ----
MaxJobs == 2

\* the place_id a job is created with
JobPlaces == {Str(id_p1), Str(id_p2)}

\* the job ids asked for: those the store may have given, and one it has not
JobIds == 1..(MaxJobs + 1)

\* the record a job's analysis writes: the profile of its place with the
\* score that run computed
AnalysisRecord(job) ==
    MkDict([place_id |-> job.place_id,
            title |-> Str(s_Joe),
            score |-> Num(50 + job.id)])

\* the statuses a PUT /update-status may carry
RequestStatuses == allowed_statuses \cup {"Done"}

JobRequests ==
    {[fn |-> fn, job_id |-> job_id] :
        fn \in {"check_job_status", "get_job_status", "update_status"},
        job_id \in JobIds}

\* no request is under way; loc is the job row check_job_status has read,
\* seen is history: the rows the store held for the job id when it was asked
ScJobIdle ==
    [pc |-> "idle", fn |-> "none", arg |-> NoneV, out |-> NoneV, loc |-> NoneV,
     seen |-> <<>>]

\* what the request returns, given the result of check_job_status
Respond(request, result) ==
    IF request.fn = "check_job_status" THEN result
    ELSE get_job_status(request.job_id, result)

JobsParked == UNCHANGED <<pg_vars, an_vars>>

\* the request as it is entered
Entered(request) == [ScJobIdle EXCEPT !.pc = "called", !.fn = request.fn, !.arg = request]

\* PUT /update-status with the status of its request body, up to its call of
\* get_job_status (lines 82-103)
PutUpdate ==
    /\ sc.pc = "idle"
    /\ \E request \in JobRequests, status \in RequestStatuses :
          /\ request.fn = "update_status"
          /\ IF status \notin allowed_statuses
             THEN /\ sc' = [Entered(request) EXCEPT !.pc = "returned",
                               !.out = HTTPException(400, "Invalid status")]
                  /\ UNCHANGED db
             ELSE \E raises \in BOOLEAN :
                     LET updated == update_job_status(db.jobs, request.job_id, status, raises)
                     IN /\ db' = [db EXCEPT !.jobs = updated.jobs]
                        /\ sc' = IF updated.ret = "True"
                                 THEN [Entered(request) EXCEPT !.pc = "lookup"]
                                 ELSE [Entered(request) EXCEPT !.pc = "returned",
                                          !.out = HTTPException(404, "Job not found or update failed")]
    /\ JobsParked

\* check_job_status reads the job row (lines 32-42), called directly, by
\* GET /check-status or by update_status after its update; it returns at
\* once unless the result row is to be read
JobLookup ==
    /\ sc.pc \in {"idle", "lookup"}
    /\ \E call \in IF sc.pc = "lookup" THEN {sc}
                   ELSE {Entered(request) : request \in
                            {r \in JobRequests : r.fn # "update_status"}} :
       \E job_result \in {Raises, Returns(List(SelectJobs(db.jobs, call.arg.job_id)))} :
          sc' = IF NeedsDataLookup(job_result)
                THEN [call EXCEPT !.pc = "data_lookup", !.loc = job_result,
                                  !.seen = SelectJobs(db.jobs, call.arg.job_id)]
                ELSE [call EXCEPT !.pc = "returned",
                                  !.out = Respond(call.arg, check_job_status(call.arg.job_id, job_result, Raises)),
                                  !.seen = SelectJobs(db.jobs, call.arg.job_id)]
    /\ UNCHANGED db
    /\ JobsParked

\* check_job_status reads the result row of the job's place_id (lines 46-61)
DataLookup ==
    /\ sc.pc = "data_lookup"
    /\ \E data_result \in {Raises,
                           Returns(List(SelectResults(db.results, sc.loc.body.l[1].place_id)))} :
          sc' = [sc EXCEPT !.pc = "returned",
                           !.out = Respond(sc.arg, check_job_status(sc.arg.job_id, sc.loc, data_result))]
    /\ UNCHANGED db
    /\ JobsParked

\* the caller has the response
Deliver ==
    /\ sc.pc = "returned"
    /\ sc' = ScJobIdle
    /\ UNCHANGED db
    /\ JobsParked

\* a job is created: insert_job_and_return_id("jobs", place_id, "Pending")
InsertJob ==
    /\ sc.pc # "returned"
    /\ Len(db.jobs) < MaxJobs
    /\ \E place_id \in JobPlaces, raises \in BOOLEAN :
          db' = [db EXCEPT !.jobs =
                    insert_job_and_return_id(db.jobs, place_id, "Pending", raises).jobs]
    /\ UNCHANGED sc
    /\ JobsParked

\* a background task calls update_job_status(job_id, status) for a job that
\* has a row; a call that raises, like one for an id without a row, leaves
\* the table as it is and is no step
UpdateJobStatus ==
    /\ sc.pc # "returned"
    /\ \E i \in 1..Len(db.jobs), status \in allowed_statuses :
          db' = [db EXCEPT !.jobs = update_job_status(db.jobs, db.jobs[i].id, status, FALSE).jobs]
    /\ UNCHANGED sc
    /\ JobsParked

\* the analysis of a job stores its record: insert_data("GBP-results", data)
InsertData ==
    /\ sc.pc # "returned"
    /\ \E i \in 1..Len(db.jobs), raises \in BOOLEAN :
          LET data == AnalysisRecord(db.jobs[i]) IN
          db' = [db EXCEPT
                    !.results = insert_data(db.results, data, raises),
                    !.upserted = IF raises THEN @
                                 ELSE {r \in @ : r.d["place_id"] # data.d["place_id"]}
                                      \cup {data}]
    /\ UNCHANGED sc
    /\ JobsParked

(***************************************************************************)
(* The specifications                                                      *)
(***************************************************************************)
\* no function call is under way
ScIdle == [pc |-> "idle", fn |-> "none", arg |-> NoneV, out |-> NoneV]

\* analyze does not run in SpecPaginate
AnParked == [AnStart EXCEPT !.pc = "parked"]
\* _paginate_results does not run on its own in SpecAnalyze
PgParked == [PaginateStart EXCEPT !.pc = "parked"]

InitPaginate ==
    /\ PgInit
    /\ inp = [query |-> NoneV, place_id |-> NoneV]
    /\ an = AnParked
    /\ thr = ThrStart
    /\ calls = {}
    /\ sc = ScIdle
    /\ db = DbStart

NextPaginate == PgPageLimit \/ PgFetchPage

SpecPaginate == InitPaginate /\ [][NextPaginate]_vars

InitAnalyze ==
    /\ inp \in Inputs
    /\ an = AnStart
    /\ thr = ThrStart
    /\ calls = {}
    /\ pg_impl = "GBPAnalyzer"
    /\ pg = PgParked
    /\ sc = ScIdle
    /\ db = DbStart
    /\ pg_log = <<>>

SpecAnalyze == InitAnalyze /\ [][NextAnalyze]_vars

(***************************************************************************)
(* SpecFunctions: one call of a parsing or scoring function on an argument *)
(* drawn from a bounded set.                                               *)
(***************************************************************************)
\* the largest count a banded sub-score is called with
MaxCount == 300

DateStrings ==
    {Str(<<"a"," ","w","e","e","k"," ","a","g","o">>),
     Str(<<"3"," ","d","a","y","s"," ","a","g","o">>),
     Str(<<"n","o","w">>),
     Str(<<"2"," ","m","o","n","t","h","s"," ","a","g","o">>),
     Str(<<"g","i","b","b","e","r","i","s","h">>),
     Str(<<>>),
     Str(<<" ">>),
     Str(<<"a","n"," ","h","o","u","r"," ","a","g","o">>),
     Str(<<"5"," ","h","o","u","r","s"," ","a","g","o">>),
     Str(<<"a"," ","m","o","m","e","n","t"," ","a","g","o">>),
     Str(<<"1"," ","y","e","a","r"," ","a","g","o">>),
     Str(<<"T","o","d","a","y">>),
     Str(<<"3"," ","w","e","e","k","s"," ","a","g","o">>),
     Str(<<"a"," ","m","o","n","t","h"," ","a","g","o">>),
     Str(<<"1","2"," ","d","a","y","s"," ","a","g","o">>),
     Str(<<"y","e","s","t","e","r","d","a","y">>),
     Str(<<" "," ","4"," ","w","e","e","k","s"," ","a","g","o">>),
     Str(<<"A"," ","W","e","e","k"," ","A","g","o">>),
     Str(<<"3","1"," ","d","a","y","s"," ","a","g","o">>),
     Str(<<"3","2"," ","d","a","y","s"," ","a","g","o">>),
     Str(<<"5"," ","w","e","e","k","s"," ","a","g","o">>),
     Str(<<"a"," ","d","e","c","a","d","e"," ","a","g","o">>),
     Str(<<"-","2"," ","d","a","y","s"," ","a","g","o">>),
     Str(<<"x","2"," ","d","a","y","s">>)}

DateArguments == DateStrings \cup {NoneV, Num(3)}

\* a post as the provider gives it, with its posted_at_text (Absent: no date)
DatedPost(posted_at_text) == MkDict([posted_at_text |-> posted_at_text, link |-> Str(<<"u">>)])

PostItems ==
    {DatedPost(Str(<<"3"," ","w","e","e","k","s"," ","a","g","o">>)), DatedPost(Str(<<"2"," ","m","o","n","t","h","s"," ","a","g","o">>)),
     DatedPost(Str(<<"a"," ","m","o","n","t","h"," ","a","g","o">>)), DatedPost(Str(<<"3","2"," ","d","a","y","s"," ","a","g","o">>)),
     DatedPost(Absent), DatedPost(Str(<<>>)), DatedPost(NoneV), DatedPost(Str(<<" ">>))}

MaxPosts == 3

PostLists == UNION {[1..n -> PostItems] : n \in 0..MaxPosts}

BandFunctions ==
    {"_review_count_scoring", "_review_recency_scoring", "_google_post_scoring",
     "_owner_images_scoring", "_customer_images_scoring"}

Descriptions == {NoneV, Str(<<>>), Str(<<"C","a","f","e">>)}
MaxAttributes == 20

Names == {NoneV, Str(<<"B","i","z">>)}
Addresses == {NoneV, Str(<<>>), Str(<<"A","d","d","r">>)}
Phones == {NoneV, Str(<<"5","5","5","-","1","2","3","4">>)}
Websites ==
    {NoneV, Str(<<>>), Str(<<"h","t","t","p",":","/","/","b","i","z",".","b","u","s","i","n","e","s","s",".","s","i","t","e">>), Str(<<"h","t","t","p",":","/","/","b","i","z",".","c","o","m">>),
     Str(<<"f","a","c","e","b","o","o","k",".","c","o","m","/","b","i","z">>)}

\* records as analyze returns them (ratings in tenths of a star)
BusinessDatas ==
    [title : {Str(<<"B","i","z">>)}, address : {Str(<<"A","d","d","r">>)}, phone : Phones,
     website : {Str(<<"h","t","t","p",":","/","/","b","i","z",".","c","o","m">>), Str(<<"f","a","c","e","b","o","o","k",".","c","o","m","/","b","i","z">>)},
     rating : {Num(0), Num(37), Num(45), Num(50)},
     reviews_count : {Num(0), Num(9), Num(120), Num(250)},
     posts_count : {0, 1, 3, 4},
     recent_reviews_in_last_month_count : {0, 2, 5},
     photo_counts_by_uploader :
        [owner_photo_count : {0, 5, 20}, customer_photo_count : {0, 5, 75}]]

\* the "date" of a review as the provider gives it (Absent: no date)
ReviewDates ==
    {Str(<<"n","o","w">>),
     Str(<<"T","o","d","a","y">>),
     Str(<<"a"," ","w","e","e","k"," ","a","g","o">>),
     Str(<<"2"," ","W","e","e","k","s"," ","A","g","o">>),
     Str(<<"5"," ","w","e","e","k","s"," ","a","g","o">>),
     Str(<<"a"," ","m","o","n","t","h"," ","a","g","o">>),
     Str(<<"2"," ","m","o","n","t","h","s"," ","a","g","o">>),
     Str(<<"3"," ","d","a","y","s"," ","a","g","o">>),
     Str(<<"y","e","s","t","e","r","d","a","y">>),
     Str(<<"a","n"," ","h","o","u","r"," ","a","g","o">>),
     Str(<<"3"," ","h","o","u","r","s"," ","a","g","o">>),
     Str(<<"1"," ","w","e","e","k"," ","a","g","o">>),
     Str(<<"a"," ","d","a","y"," ","a","g","o">>),
     Str(<<>>),
     Absent, NoneV}

\* the items of a reviews list: reviews, and an item that is no dict
ReviewItems == {Review(date) : date \in ReviewDates} \cup {Str(<<"j","u","n","k">>)}

MaxReviews == 2

ReviewLists == UNION {[1..n -> ReviewItems] : n \in 0..MaxReviews}

\* what the browser does for one thumbnail: the click, the search for the
\* uploader container, the text read by each uploader-name selector and
\* the lines of the container's text
Thumbnail(click, container, names, all_text) ==
    [click |-> click, container |-> container, names |-> names, all_text |-> all_text]

NameReads == {NoneV, Str(<<" ">>), Str(<<" ","A","n","n"," ">>)}
ContainerTexts == {NoneV, List(<<>>), List(<<<<" "," ">>, <<"J","o","e"," ","C","a","f","e"," ">>, <<"G","u","i","d","e">>>>)}

Thumbnails ==
    {Thumbnail(click, "none", <<NoneV, NoneV>>, NoneV) : click \in {"timeout", "error"}}
    \cup {Thumbnail("ok", container, <<NoneV, NoneV>>, NoneV) : container \in {"none", "error"}}
    \cup {Thumbnail("ok", "found", <<n1, n2>>, all_text) :
             n1 \in NameReads, n2 \in NameReads, all_text \in ContainerTexts}

MaxPhotos == 2

ThumbnailLists == UNION {[1..n -> Thumbnails] : n \in 0..MaxPhotos}

Call(fn, arg) == [pc |-> "called", fn |-> fn, arg |-> arg, out |-> NoneV]

FunctionCalls ==
    {Call(fn, arg) : fn \in {"convert_relative_date_to_days", "_convert_relative_date_to_days"},
                     arg \in DateArguments}
    \cup {Call("_filter_posts_by_recency", List(arg)) : arg \in PostLists}
    \cup {Call(fn, List(arg)) :
             fn \in {"_filter_reviews_by_recency", "recent_reviews_in_last_month_count"},
             arg \in ReviewLists}
    \cup {Call("get_attributions_by_navigation", List(arg)) : arg \in ThumbnailLists}
    \cup {Call(fn, Num(arg)) : fn \in BandFunctions, arg \in 0..MaxCount}
    \cup {Call("_fields_filled_scoring", arg) :
             arg \in [attributes : 0..MaxAttributes, description : Descriptions]}
    \cup {Call("_NAPW_completeness_scoring", arg) :
             arg \in [name : Names, address : Addresses, phone : Phones, website : Websites]}
    \cup {Call("calculate_score", arg) : arg \in BusinessDatas}

Called(fn) == sc.pc = "called" /\ sc.fn = fn
Returning(out) == sc' = [sc EXCEPT !.pc = "returned", !.out = out]
Parked == UNCHANGED <<pg_vars, an_vars, db>>

Run_convert_relative_date_to_days ==
    /\ Called("convert_relative_date_to_days")
    /\ Returning(convert_relative_date_to_days(sc.arg))
    /\ Parked

Run__convert_relative_date_to_days ==
    /\ Called("_convert_relative_date_to_days")
    /\ Returning(_convert_relative_date_to_days(sc.arg))
    /\ Parked

Run_filter_posts_by_recency ==
    /\ Called("_filter_posts_by_recency")
    /\ Returning(_filter_posts_by_recency(sc.arg.l))
    /\ Parked

Run_filter_reviews_by_recency ==
    /\ Called("_filter_reviews_by_recency")
    /\ Returning(Ret(List(_filter_reviews_by_recency(sc.arg.l))))
    /\ Parked

Run_recent_reviews_in_last_month_count ==
    /\ Called("recent_reviews_in_last_month_count")
    /\ Returning(Ret(recent_reviews_in_last_month_count(sc.arg.l)))
    /\ Parked

\* a scraper run that reaches the gallery and processes its thumbnails
Run_get_attributions_by_navigation ==
    /\ Called("get_attributions_by_navigation")
    /\ Returning(Ret(List(get_attributions_by_navigation(FALSE, ProcessThumbnails(sc.arg.l)))))
    /\ Parked

Run_review_count_scoring ==
    /\ Called("_review_count_scoring")
    /\ Returning(Ret(_review_count_scoring(sc.arg.n)))
    /\ Parked

Run_review_recency_scoring ==
    /\ Called("_review_recency_scoring")
    /\ Returning(Ret(_review_recency_scoring(sc.arg.n)))
    /\ Parked

Run_google_post_scoring ==
    /\ Called("_google_post_scoring")
    /\ Returning(Ret(_google_post_scoring(sc.arg.n)))
    /\ Parked

Run_owner_images_scoring ==
    /\ Called("_owner_images_scoring")
    /\ Returning(Ret(_owner_images_scoring(sc.arg.n)))
    /\ Parked

Run_customer_images_scoring ==
    /\ Called("_customer_images_scoring")
    /\ Returning(Ret(_customer_images_scoring(sc.arg.n)))
    /\ Parked

Run_fields_filled_scoring ==
    /\ Called("_fields_filled_scoring")
    /\ Returning(Ret(_fields_filled_scoring(sc.arg.attributes, sc.arg.description)))
    /\ Parked

Run_NAPW_completeness_scoring ==
    /\ Called("_NAPW_completeness_scoring")
    /\ Returning(Ret(_NAPW_completeness_scoring(sc.arg.name, sc.arg.address,
                                                sc.arg.phone, sc.arg.website)))
    /\ Parked

Run_calculate_score ==
    /\ Called("calculate_score")
    /\ \E out \in calculate_score(sc.arg) : Returning(out)
    /\ Parked

InitFunctions ==
    /\ sc \in FunctionCalls
    /\ db = DbStart
    /\ pg_impl = "GBPAnalyzer"
    /\ pg = PgParked
    /\ pg_log = <<>>
    /\ inp = [query |-> NoneV, place_id |-> NoneV]
    /\ an = AnParked
    /\ thr = ThrStart
    /\ calls = {}

NextFunctions ==
    \/ Run_convert_relative_date_to_days \/ Run__convert_relative_date_to_days
    \/ Run_filter_posts_by_recency
    \/ Run_filter_reviews_by_recency \/ Run_recent_reviews_in_last_month_count
    \/ Run_get_attributions_by_navigation
    \/ Run_review_count_scoring \/ Run_review_recency_scoring \/ Run_google_post_scoring
    \/ Run_owner_images_scoring \/ Run_customer_images_scoring
    \/ Run_fields_filled_scoring \/ Run_NAPW_completeness_scoring
    \/ Run_calculate_score

SpecFunctions == InitFunctions /\ [][NextFunctions]_vars

(***************************************************************************)
(* SpecJobs: the job store under requests and background calls             *)
(***************************************************************************)
InitJobs ==
    /\ db = DbStart
    /\ sc = ScJobIdle
    /\ pg_impl = "GBPAnalyzer"
    /\ pg = PgParked
    /\ pg_log = <<>>
    /\ inp = [query |-> NoneV, place_id |-> NoneV]
    /\ an = AnParked
    /\ thr = ThrStart
    /\ calls = {}

NextJobs ==
    \/ PutUpdate \/ JobLookup \/ DataLookup \/ Deliver
    \/ InsertJob \/ UpdateJobStatus \/ InsertData

SpecJobs == InitJobs /\ [][NextJobs]_vars

(***************************************************************************)
(* Properties of _paginate_results (SpecPaginate)                          *)
(***************************************************************************)
\* what the history says of one response, read off the payload itself
RespFailed(resp) == resp.raises \/ "error" \in DOMAIN resp.body.d
RespItems(resp) ==
    IF RespFailed(resp) \/ "reviews" \notin DOMAIN resp.body.d THEN <<>>
    ELSE resp.body.d.reviews.l
RespHasToken(resp) ==
    /\ ~RespFailed(resp)
    /\ "serpapi_pagination" \in DOMAIN resp.body.d
    /\ "next_page_token" \in DOMAIN resp.body.d.serpapi_pagination.d
RespToken(resp) == resp.body.d.serpapi_pagination.d.next_page_token

\* the items of the first k responses, in call order
RECURSIVE LogItems(_, _)
LogItems(log, k) ==
    IF k = 0 THEN <<>> ELSE LogItems(log, k - 1) \o RespItems(log[k].resp)

\* the first k responses are pages of the given sizes, each with a token
\* except where last_has_token says otherwise for the k-th
IsPage(resp, n, has_token) ==
    ~RespFailed(resp) /\ Len(RespItems(resp)) = n /\ RespHasToken(resp) = has_token

\* every response so far is a 50-item page that carries a token
EndlessFullPages ==
    \A k \in 1..Len(pg_log) : IsPage(pg_log[k].resp, 50, TRUE)

\* C6: _paginate_results returns the concatenation, in page order, of the
\* items of every page fetched; each request carries the next_page_token of
\* the response before it (the first carries none); no request follows a page
\* without a next_page_token; and against pages of 50/50/10 items with no
\* token on the third, GBPAnalyzer's loop returns exactly those 110 items
\* after exactly 3 calls.
C6_PaginateConcatenates ==
    /\ pg.all_results = LogItems(pg_log, Len(pg_log))
    /\ \A k \in 1..Len(pg_log) :
          pg_log[k].sent = IF k = 1 THEN NoneV ELSE RespToken(pg_log[k - 1].resp)
    /\ \A k \in 1..Len(pg_log) : ~RespHasToken(pg_log[k].resp) => k = Len(pg_log)
    /\ \A k \in 1..Len(pg_log) :
          ~RespHasToken(pg_log[k].resp) => pg.pc = "returned"
    /\ (/\ pg_impl = "GBPAnalyzer"
        /\ Len(pg_log) >= 3
        /\ IsPage(pg_log[1].resp, 50, TRUE)
        /\ IsPage(pg_log[2].resp, 50, TRUE)
        /\ IsPage(pg_log[3].resp, 10, FALSE))
       => /\ Len(pg_log) = 3
          /\ pg.pc = "returned"
          /\ Len(pg.all_results) = 110
          /\ pg.all_results = PageItems(1, 50) \o PageItems(2, 50) \o PageItems(3, 10)

\* the 50/50/10 provider has been paged through to the return
C6_Witness ==
    /\ pg_impl = "GBPAnalyzer"
    /\ pg.pc = "returned"
    /\ Len(pg_log) = 3
    /\ IsPage(pg_log[1].resp, 50, TRUE)
    /\ IsPage(pg_log[2].resp, 50, TRUE)
    /\ IsPage(pg_log[3].resp, 10, FALSE)
    /\ Len(pg.all_results) = 110

\* C7: the page ceiling is 10 in both implementations: against an endless
\* stream of 50-item pages that always carry a token, pagination ends after
\* exactly 10 provider calls with at most 500 items.
C7_PageCeilingBoth ==
    (pg.pc = "returned" /\ EndlessFullPages)
       => Len(pg_log) = 10 /\ Len(pg.all_results) <= 500

\* C8: _paginate_results of GBPAnalyzer requests no further page once
\* pagination_item_limit (200) items are accumulated: with 50-item pages that
\* always carry a token at most 4 calls are made and at most 200 items
\* returned.
C8_ItemCeiling ==
    pg_impl = "GBPAnalyzer" =>
      /\ \A k \in 1..Len(pg_log) : Len(LogItems(pg_log, k - 1)) < pagination_item_limit
      /\ EndlessFullPages => Len(pg_log) <= 4 /\ Len(pg.all_results) <= 200

\* C9: if the k-th page request fails (the call raises, or the payload has an
\* "error" field), pagination has stopped with that request, and what it
\* returns is exactly the items of pages 1..k-1 (nothing when k = 1); the
\* loop's only exits are returns of all_results.
C9_PaginationDegrades ==
    /\ pg.pc \in {"loop", "returned"}
    /\ \A k \in 1..Len(pg_log) :
          RespFailed(pg_log[k].resp) =>
             /\ k = Len(pg_log)
             /\ pg.pc = "returned"
             /\ pg.all_results = LogItems(pg_log, k - 1)

\* the third request failed after two pages were accumulated
C9_Witness ==
    /\ pg.pc = "returned"
    /\ Len(pg_log) = 3
    /\ RespFailed(pg_log[3].resp)
    /\ "reviews" \in DOMAIN pg_log[3].resp.body.d
    /\ Len(pg.all_results) = 60

(***************************************************************************)
(* Properties of GBPAnalyzer.analyze (SpecAnalyze)                         *)
(***************************************************************************)
Returned == an.pc = "done"
SearchMade == "search" \in calls
DetailsMade == "details" \in calls

\* a key of a dict payload that is there with a non-empty value
Present(payload, key) ==
    payload.t = "dict" /\ key \in DOMAIN payload.d /\ Truthy(payload.d[key])

\* the search gave no candidate: an error or empty payload, or neither a
\* place_results object nor a first item of local_results
NoCandidate(initial_results) ==
    \/ ~Truthy(initial_results)
    \/ /\ ~Present(initial_results, "place_results")
       /\ \/ "local_results" \notin DOMAIN initial_results.d
          \/ initial_results.d.local_results = List(<<>>)

\* no worker was ever started
NoFanOut ==
    /\ thr = ThrStart
    /\ an.futures = {}
    /\ calls \cap {"reviews", "social", "scraper_task", "reviews_query", "kg_query",
                   "scraper", "posts"} = {}

\* C4: with no place_id given, the candidate is the place_results object if
\* present, otherwise the first item of local_results; when the search gives
\* no candidate (or an error or empty payload), analyze returns success=False
\* with a not-found error, and it has issued no details call, no reviews,
\* social or posts call and no scraper task.
C4_IdentityResolution ==
    /\ (SearchMade /\ an.initial_search_result # NoneV) =>
          an.initial_search_result =
             IF Present(an.initial_results, "place_results")
             THEN an.initial_results.d.place_results
             ELSE an.initial_results.d.local_results.l[1]
    /\ (SearchMade /\ an.pc \notin {"start", "done"}) =>
          /\ an.initial_search_result # NoneV
          /\ an.current_place_id = an.initial_search_result.d.place_id
    /\ (SearchMade /\ NoCandidate(an.initial_results)) =>
          /\ Returned
          /\ an.result \in {Failure(E_NoResults), Failure(E_NoGBP)}
          /\ calls = {"search"}
          /\ NoFanOut

\* a search with a payload that names no place has returned
C4_Witness ==
    /\ Returned
    /\ SearchMade
    /\ Truthy(an.initial_results)
    /\ "local_results" \in DOMAIN an.initial_results.d
    /\ NoCandidate(an.initial_results)
    /\ an.result = Failure(E_NoGBP)

\* the details call gave an empty payload: an error, an exception, or a
\* payload without a place_results object
DetailsEmpty ==
    /\ DetailsMade
    /\ an.details_results.t = "dict"
    /\ ~Present(an.details_results, "place_results")

\* C5: when the details call returns an empty payload (or an error), analyze
\* returns success=False with the details-unavailable error, the result holds
\* no "data", and no fan-out branch or posts query was started.
C5_DetailsFailure ==
    DetailsEmpty =>
       /\ Returned
       /\ an.result.success = FALSE
       /\ an.result.error = E_NoDetails
       /\ "data" \notin DOMAIN an.result
       /\ calls \subseteq {"search", "details"}
       /\ NoFanOut

\* a search resolved the place and the details call then came back empty
C5_Witness ==
    /\ Returned
    /\ SearchMade
    /\ Truthy(an.current_place_id)
    /\ DetailsEmpty
    /\ an.result = Failure(E_NoDetails)

\* the fan-out was entered and at least one task was submitted
FanOutEntered == an.futures # {}

\* the branch's future gave its worker's return value to analyze
BranchCompleted(branch) ==
    /\ branch \in an.futures
    /\ branch \notin an.timed_out
    /\ thr[branch].st = "done"

\* C1: once the fan-out is entered, analyze returns success=True whatever
\* branch raised, was not submitted or timed out; every branch that
\* completed shows its worker's result in the record (recent review count,
\* social_links, photo counts) and every other branch's fields are the
\* defaults (0, [], zero counts).
C1_FanOutIsolation ==
    /\ (FanOutEntered \/ an.timed_out # {}) => an.exc = "none"
    /\ (Returned /\ FanOutEntered) =>
          /\ an.result.success = TRUE
          /\ an.result.data.recent_reviews_in_last_month_count =
                IF BranchCompleted("reviews")
                THEN Len(_filter_reviews_by_recency(thr.reviews.val)) ELSE 0
          /\ an.result.data.social_links =
                IF BranchCompleted("social") THEN thr.social.val ELSE <<>>
          /\ an.result.data.photo_counts_by_uploader =
                IF BranchCompleted("photos")
                THEN _get_photo_counts(an.business_title, thr.photos.val)
                ELSE default_counts
          /\ an.result.data.total_photos_analyzed =
                IF BranchCompleted("photos") THEN Len(thr.photos.val) ELSE 0

\* the social branch timed out, reviews and photos completed with results
C1_Witness ==
    /\ Returned
    /\ an.result.success = TRUE
    /\ an.timed_out = {"social"}
    /\ BranchCompleted("reviews")
    /\ BranchCompleted("photos")
    /\ an.result.data.social_links = <<>>
    /\ an.result.data.recent_reviews_in_last_month_count > 0
    /\ an.result.data.total_photos_analyzed > 0
    /\ an.result.data.photo_counts_by_uploader.owner_photo_count > 0

\* C2: with a scraper worker that never finishes, _run_photo_scraper can
\* still leave its with block after the 300 s timeout and return [], and
\* analyze can still go on to its return: neither waits on the worker.
C2_HardPhotoTimeout ==
    thr.scraper.st = "hung" =>
       /\ thr.photos.st = "exiting" => ENABLED PhotosReturn
       /\ Returned \/ ENABLED NextAnalyze

\* the search payload makes the candidate expression or .get("place_id") raise:
\* place_results or local_results[0] that is no dict, or local_results that is no list
SearchPayloadMalformed ==
    /\ SearchMade
    /\ Truthy(an.initial_results)
    /\ IF Present(an.initial_results, "place_results")
       THEN an.initial_results.d.place_results.t # "dict"
       ELSE /\ "local_results" \in DOMAIN an.initial_results.d
            /\ LET local_results == an.initial_results.d.local_results IN
               \/ local_results.t # "list"
               \/ /\ local_results.l # <<>>
                  /\ Truthy(local_results.l[1])
                  /\ local_results.l[1].t # "dict"

DetailsPayloadMalformed == DetailsMade /\ an.details_results.t # "dict"

TitleMalformed ==
    /\ DetailsMade
    /\ Present(an.details_results, "place_results")
    /\ "title" \in DOMAIN an.details_results.d.place_results.d
    /\ an.details_results.d.place_results.d.title.t # "str"

AnalysisFailedResult ==
    [success |-> FALSE, error |-> E_AnalysisFailed, data |-> default_data(inp.place_id)]

PostsIn(payload) ==
    IF Present(payload, "updates") /\ Present(payload.d.updates, "posts")
    THEN payload.d.updates.d.posts
    ELSE List(<<>>)

\* a data_id is known: from the details response, or else from the search result
DataIdExists ==
    \/ Present(an.details_results.d.place_results, "data_id")
    \/ Present(an.initial_search_result, "data_id")

PostsSelected == an.pc = "process" \/ (Returned /\ an.result.success = TRUE)

\* C10: the posts are selected after the fan-out was collected and its pools
\* have shut down; they are the details response's posts if non-empty, else
\* the search result's posts if non-empty, else what the posts query by
\* data_id returned; the query is issued only with a data_id and both
\* embedded sources empty, and no two sources are ever joined.
C10_PostsSourceSelection ==
    /\ "posts" \in calls => an.pc \in {"process", "done"} /\ PoolsIdle(thr)
    /\ an.pc \notin {"process", "done"} => an.all_posts = List(<<>>)
    /\ PostsSelected =>
          LET from_details == PostsIn(an.details_results.d.place_results)
              from_search == PostsIn(an.initial_search_result)
          IN IF Truthy(from_details)
             THEN an.all_posts = from_details /\ "posts" \notin calls
             ELSE IF Truthy(from_search)
             THEN an.all_posts = from_search /\ "posts" \notin calls
             ELSE IF DataIdExists /\ Truthy(an.business_title)
             THEN /\ "posts" \in calls
                  /\ \E script \in PostScripts :
                        an.all_posts =
                           List(_paginate_results(pagination_page_limit, "posts", script))
             ELSE "posts" \notin calls /\ ~Truthy(an.all_posts)
    /\ (Returned /\ an.result.success = TRUE) =>
          an.result.data.posts_count = Len(an.all_posts.l)

\* both embedded sources were empty and the query by data_id gave the posts
C10_Witness ==
    /\ Returned
    /\ an.result.success = TRUE
    /\ SearchMade
    /\ "posts" \in calls
    /\ ~Truthy(PostsIn(an.details_results.d.place_results))
    /\ ~Truthy(PostsIn(an.initial_search_result))
    /\ an.result.data.posts_count > 0

(***************************************************************************)
(* Properties of the parsing and scoring functions (SpecFunctions)         *)
(***************************************************************************)
FnReturned(fn) == sc.pc = "returned" /\ sc.fn = fn

\* the days a unit word stands for, in 24ths of a day, by the first unit the
\* string names in the order day, week, month, year, hour; 0 for none
UnitWords == <<s_day, s_week, s_month, s_year, s_hour>>
Unit24ths == <<24, 168, 720, 8760, 1>>
NamedUnits(text) == {k \in 1..Len(UnitWords) : contains(text, UnitWords[k])}
FirstUnit(text) == CHOOSE k \in NamedUnits(text) : \A j \in NamedUnits(text) : k <= j

\* the conversion as specified, for a string: 0 for now/moment, else
\* quantity x unit, +infinity for no quantity or no unit
SpecifiedDays(chars) ==
    LET text == lower(chars)
        tokens == split(text)
    IN IF contains(text, s_now) \/ contains(text, s_moment) THEN Days(0)
       ELSE IF tokens = <<>> THEN Inf
       ELSE IF tokens[1] \notin {s_a, s_an} /\ ~IntParses(tokens[1]) THEN Inf
       ELSE IF NamedUnits(text) = {} THEN Inf
       ELSE Days((IF tokens[1] \in {s_a, s_an} THEN 1 ELSE int(tokens[1]))
                 * Unit24ths[FirstUnit(text)])

\* C19: both conversions give, for every string, 0 for now/moment and
\* otherwise quantity x unit (day 1, week 7, month 30, year 365, hour 1/24),
\* with +infinity for an unparseable quantity or an unrecognized unit;
\* 'a week ago' gives 7, '3 days ago' 3, 'now' 0, '2 months ago' 60 and
\* 'gibberish' +infinity.
C19_RelativeDateParsing ==
    ((FnReturned("convert_relative_date_to_days")
        \/ FnReturned("_convert_relative_date_to_days")) /\ sc.arg.t = "str") =>
       /\ sc.out = SpecifiedDays(sc.arg.s)
       /\ sc.arg = Str(<<"a"," ","w","e","e","k"," ","a","g","o">>) => sc.out = Days(7 * 24)
       /\ sc.arg = Str(<<"3"," ","d","a","y","s"," ","a","g","o">>) => sc.out = Days(3 * 24)
       /\ sc.arg = Str(<<"n","o","w">>) => sc.out = Days(0)
       /\ sc.arg = Str(<<"2"," ","m","o","n","t","h","s"," ","a","g","o">>) => sc.out = Days(60 * 24)
       /\ sc.arg = Str(<<"g","i","b","b","e","r","i","s","h">>) => sc.out = Inf

\* the posts of a list that have a non-empty posted_at_text whose specified
\* conversion is at most 31 days
SpecifiedRecent(all_posts) ==
    {i \in 1..Len(all_posts) :
        LET posted_at_text == Get(all_posts[i], "posted_at_text", NoneV) IN
        /\ Truthy(posted_at_text)
        /\ posted_at_text.t = "str"
        /\ SpecifiedDays(posted_at_text.s).t = "days"
        /\ SpecifiedDays(posted_at_text.s).n24 <= 744}

\* C20: _filter_posts_by_recency returns the number of posts that have a
\* non-empty posted_at_text whose conversion is at most 31 days: '3 weeks
\* ago' counts, '2 months ago' and a post without a date do not.
C20_RecentPostFilter ==
    FnReturned("_filter_posts_by_recency") =>
       /\ sc.out = Ret(Cardinality(SpecifiedRecent(sc.arg.l)))
       /\ sc.arg.l = <<DatedPost(Str(<<"3"," ","w","e","e","k","s"," ","a","g","o">>)), DatedPost(Str(<<"2"," ","m","o","n","t","h","s"," ","a","g","o">>)),
                     DatedPost(Absent)>> => sc.out = Ret(1)

\* the fields of a NAPW argument that are present
PresentFields(arg) ==
    {k \in {"name", "address", "phone", "website"} : Truthy(arg[k])}

SpecialSite(arg) ==
    /\ Truthy(arg.website)
    /\ \E site \in {s_business_site, s_facebook, s_instagram, s_linkedin} :
          contains(arg.website.s, site)

BizSite == [name |-> Str(<<"B","i","z">>), address |-> Str(<<"A","d","d","r">>), phone |-> Str(<<"5","5","5","-","1","2","3","4">>),
            website |-> Str(<<"h","t","t","p",":","/","/","b","i","z",".","b","u","s","i","n","e","s","s",".","s","i","t","e">>)]

\* C16 as stated: _NAPW_completeness_scoring('Biz', 'Addr', '555-1234',
\* 'http://biz.business.site') returns 8.
C16_AsStated ==
    (FnReturned("_NAPW_completeness_scoring") /\ sc.arg = BizSite) => sc.out = Ret(8)

\* C16: _NAPW_completeness_scoring returns 10 when all four fields are
\* present, whatever the website, so ('Biz', 'Addr', '555-1234',
\* 'http://biz.business.site') gives 10; with fewer than four fields a
\* website on a special site gives 8, ahead of the count of fields
\* (3 gives 6, 2 gives 3, 1 gives 1, 0 gives 0).
C16_NAPWBranchPriority ==
    FnReturned("_NAPW_completeness_scoring") =>
       LET present == Cardinality(PresentFields(sc.arg)) IN
       /\ sc.arg = BizSite => sc.out = Ret(10)
       /\ sc.out = Ret(IF present = 4 THEN 10
                       ELSE IF SpecialSite(sc.arg) THEN 8
                       ELSE IF present = 3 THEN 6
                       ELSE IF present = 2 THEN 3
                       ELSE IF present = 1 THEN 1
                       ELSE 0)

\* the call of the example has returned
C16_Witness ==
    /\ FnReturned("_NAPW_completeness_scoring")
    /\ sc.arg = BizSite
    /\ sc.out = Ret(10)

\* the weighted sum as specified, in thousandths of a point
SpecifiedSum(business_data) ==
    LET posting == _google_post_scoring(business_data.posts_count)
        owner == _owner_images_scoring(business_data.photo_counts_by_uploader.owner_photo_count)
        customer ==
            _customer_images_scoring(business_data.photo_counts_by_uploader.customer_photo_count)
        recency == _review_recency_scoring(business_data.recent_reviews_in_last_month_count)
        \* 2 x rating, the rating in tenths of a star: hundredths of a point x 5
        star_x_10 == 2 * business_data.rating.n
        count == _review_count_scoring(business_data.reviews_count.n)
        completeness == _fields_filled_scoring(0, NoneV)
        napw == _NAPW_completeness_scoring(business_data.title, business_data.address,
                                           business_data.phone, business_data.website)
    IN 200 * posting + 100 * (owner + customer) + 200 * recency + 15 * star_x_10
       + 150 * count + 50 * completeness + 50 * napw

ReviewCountBands == <<<<250, 10>>, <<100, 8>>, <<50, 6>>, <<10, 3>>, <<1, 1>>, <<0, 0>>>>
ReviewRecencyBands == <<<<5, 10>>, <<4, 8>>, <<3, 4>>, <<2, 2>>, <<1, 1>>, <<0, 0>>>>
PostingBands == <<<<4, 10>>, <<3, 7>>, <<2, 5>>, <<1, 2>>, <<0, 0>>>>
OwnerPhotoBands == <<<<20, 10>>, <<10, 8>>, <<5, 5>>, <<1, 2>>, <<0, 0>>>>
CustomerPhotoBands ==
    <<<<75, 10>>, <<50, 8>>, <<30, 6>>, <<15, 4>>, <<5, 3>>, <<1, 1>>, <<0, 0>>>>
AttributeBands == <<<<15, 8>>, <<10, 6>>, <<5, 4>>, <<1, 1>>, <<0, 0>>>>

\* the score of the one band n falls in
Banded(bands, n) ==
    LET k == CHOOSE k \in 1..Len(bands) :
                 /\ bands[k][1] <= n
                 /\ \A j \in 1..Len(bands) : bands[j][1] <= n => bands[j][1] <= bands[k][1]
    IN bands[k][2]

BandsOf(fn) ==
    CASE fn = "_review_count_scoring" -> ReviewCountBands
      [] fn = "_review_recency_scoring" -> ReviewRecencyBands
      [] fn = "_google_post_scoring" -> PostingBands
      [] fn = "_owner_images_scoring" -> OwnerPhotoBands
      [] fn = "_customer_images_scoring" -> CustomerPhotoBands

\* C18: every banded sub-score gives, for every count from 0 up, the score
\* of the band of the specified table the count lies in, and completeness
\* is 2 for a description plus the attribute band, at most 10.
C18_BandedSubScores ==
    /\ (sc.pc = "returned" /\ sc.fn \in BandFunctions) =>
          sc.out = Ret(Banded(BandsOf(sc.fn), sc.arg.n))
    /\ FnReturned("_fields_filled_scoring") =>
          /\ sc.out = Ret((IF Truthy(sc.arg.description) THEN 2 ELSE 0)
                          + Banded(AttributeBands, sc.arg.attributes))
          /\ sc.out.v <= 10

\* a count on a band edge was scored: 249 reviews give 8
C18_Witness ==
    /\ FnReturned("_review_count_scoring")
    /\ sc.arg = Num(249)
    /\ sc.out = Ret(8)

(***************************************************************************)
(* Properties of the record analyze returns (SpecAnalyze)                  *)
(***************************************************************************)
Succeeded == Returned /\ an.result.success = TRUE

\* C11: posts_count of the record is the number of posts of the selected
\* source whose posted_at_text converts to at most 31 days; a post dated
\* '2 months ago' is not counted.
C11_PostsCountRecentOnly ==
    Succeeded => an.result.data.posts_count = Cardinality(SpecifiedRecent(an.all_posts.l))

\* the number of items of the list-valued entries of one group of extensions
RECURSIVE GroupItems(_, _)
GroupItems(group, keys) ==
    IF keys = {} THEN 0
    ELSE LET k == CHOOSE k \in keys : TRUE IN
         (IF group.d[k].t = "list" THEN Len(group.d[k].l) ELSE 0)
            + GroupItems(group, keys \ {k})

RECURSIVE FlattenedFrom(_, _)
FlattenedFrom(groups, i) ==
    IF i > Len(groups) THEN 0
    ELSE GroupItems(groups[i], DOMAIN groups[i].d) + FlattenedFrom(groups, i + 1)

\* the number of attributes of a place: 0 without a list of extensions
FlattenedAttributes(place_data) ==
    IF Present(place_data, "extensions") /\ place_data.d.extensions.t = "list"
    THEN FlattenedFrom(place_data.d.extensions.l, 1)
    ELSE 0

\* C12: the record of a successful analyze has attributes_count, the number
\* of items over all list-valued groups of the place's extensions, and the
\* score computed from the record uses that count.
C12_AttributeFlattening ==
    Succeeded =>
       /\ "attributes_count" \in DOMAIN an.result.data
       /\ an.result.data.attributes_count = FlattenedAttributes(an.place_data)

\* C13: in every record of a successful analyze the owner and customer photo
\* counts add up to total_photos_analyzed, which is the number of
\* attributions the photo branch delivered.
C13_PhotoCountInvariant ==
    Succeeded =>
       LET counts == an.result.data.photo_counts_by_uploader IN
       /\ counts.owner_photo_count >= 0
       /\ counts.customer_photo_count >= 0
       /\ counts.owner_photo_count + counts.customer_photo_count
             = an.result.data.total_photos_analyzed
       /\ an.result.data.total_photos_analyzed = Len(an.photo_attributions)
       /\ BranchCompleted("photos") =>
             an.result.data.total_photos_analyzed = Len(thr.photos.val)

\* three attributions were delivered, one of them without an uploader: one
\* is the owner's, two are customers'
C13_Witness ==
    /\ Succeeded
    /\ BranchCompleted("photos")
    /\ \E i \in 1..Len(thr.photos.val) : "uploader" \notin DOMAIN thr.photos.val[i].d
    /\ an.result.data.total_photos_analyzed = 3
    /\ an.result.data.photo_counts_by_uploader =
          [owner_photo_count |-> 1, customer_photo_count |-> 2]

\* C14: when the scraper's navigation fails before any photo is classified,
\* it returns an empty list, and the record has owner_photo_count = 0,
\* customer_photo_count = 0 and total_photos_analyzed = 0.
C14_ScraperFailureNoSignal ==
    /\ (thr.scraper.st = "done" /\ thr.scraper.failed) => thr.scraper.val = <<>>
    /\ (Succeeded /\ BranchCompleted("photos") /\ thr.scraper.failed) =>
          /\ an.result.data.photo_counts_by_uploader = default_counts
          /\ an.result.data.total_photos_analyzed = 0

\* C15: for every record of a successful analyze, calculate_score returns
\* (it does not raise) a score s with 0.0 <= s <= 10.0.
C15_ScoreBounded ==
    /\ Succeeded =>
          \A out \in calculate_score(an.result.data) :
             out.t = "ret" /\ out.v \in 0..100
    /\ sc.pc = "returned" =>
          /\ Succeeded
          /\ sc.arg = an.result.data
          /\ sc.out.t = "ret"
          /\ sc.out.v \in 0..100

\* a record with every branch at its default was scored
C15_Witness ==
    /\ sc.pc = "returned"
    /\ Succeeded
    /\ an.all_reviews = <<>>
    /\ an.social_links = <<>>
    /\ an.photo_attributions = <<>>
    /\ an.result.data.posts_count = 0
    /\ sc.out.t = "ret"

(***************************************************************************)
(* Properties of the review recency filter (SpecFunctions)                 *)
(***************************************************************************)
\* the vocabulary of recent dates as specified
RecentVocabulary ==
    {<<"n","o","w">>,
     <<"t","o","d","a","y">>,
     <<"a"," ","w","e","e","k"," ","a","g","o">>,
     <<"2"," ","w","e","e","k","s"," ","a","g","o">>,
     <<"3"," ","w","e","e","k","s"," ","a","g","o">>,
     <<"4"," ","w","e","e","k","s"," ","a","g","o">>,
     <<"a"," ","m","o","n","t","h"," ","a","g","o">>}

\* whether an item of the list is a review with a date that is recent as
\* specified: non-empty and, lower-cased, in the vocabulary or containing
\* "day"
SpecifiedRecentReview(review) ==
    /\ review.t = "dict"
    /\ "date" \in DOMAIN review.d
    /\ review.d["date"].t = "str"
    /\ review.d["date"].s # <<>>
    /\ \/ lower(review.d["date"].s) \in RecentVocabulary
       \/ contains(lower(review.d["date"].s), <<"d","a","y">>)

\* C21: _filter_reviews_by_recency returns, in the order of the input, the
\* reviews whose lower-cased date is in the vocabulary or contains "day";
\* a review with a missing or empty date is dropped; and the
\* recent_reviews_in_last_month_count of the record is the length of that
\* list.
C21_ReviewRecencyFilter ==
    /\ FnReturned("_filter_reviews_by_recency") =>
          sc.out = Ret(List(SelectSeq(sc.arg.l, SpecifiedRecentReview)))
    /\ FnReturned("recent_reviews_in_last_month_count") =>
          sc.out = Ret(Len(SelectSeq(sc.arg.l, SpecifiedRecentReview)))

\* C21 witness: a list of a review dated "2 Weeks Ago" after one without a
\* date was filtered, and the second alone was kept
C21_Witness ==
    /\ FnReturned("_filter_reviews_by_recency")
    /\ sc.arg.l = <<Review(Absent), Review(Str(<<"2"," ","W","e","e","k","s"," ","A","g","o">>))>>
    /\ sc.out.v.l = <<Review(Str(<<"2"," ","W","e","e","k","s"," ","A","g","o">>))>>

\* whether an item of the list is a review whose date string
\* convert_relative_date_to_days turns into at most 31 days
ConvertsWithinMonth(review) ==
    /\ review.t = "dict"
    /\ "date" \in DOMAIN review.d
    /\ review.d["date"].t = "str"
    /\ LET days_ago == convert_relative_date_to_days(review.d["date"]) IN
       /\ days_ago.t = "days"
       /\ days_ago.n24 <= 31 * 24

\* C28: every review whose date converts to at most 31 days under
\* convert_relative_date_to_days ("an hour ago", "3 hours ago", "1 week
\* ago", "a day ago") is kept by _filter_reviews_by_recency and counted in
\* recent_reviews_in_last_month_count.
C28_RecencyMechanismsAgree ==
    /\ FnReturned("_filter_reviews_by_recency") =>
          \A i \in 1..Len(sc.arg.l) :
             ConvertsWithinMonth(sc.arg.l[i]) =>
                \E j \in 1..Len(sc.out.v.l) : sc.out.v.l[j] = sc.arg.l[i]
    /\ FnReturned("recent_reviews_in_last_month_count") =>
          sc.out.v >= Cardinality({i \in 1..Len(sc.arg.l) : ConvertsWithinMonth(sc.arg.l[i])})

\* C27: convert_relative_date_to_days, the conversion _filter_posts_by_recency
\* uses, returns a value and never raises, with +infinity for a non-string,
\* the empty string and a whitespace-only string; so _filter_posts_by_recency
\* never raises either.
C27_ParserTotal ==
    /\ FnReturned("convert_relative_date_to_days") =>
          /\ sc.out.t # "raised"
          /\ (sc.arg.t # "str" \/ split(sc.arg.s) = <<>>) => sc.out = Inf
    /\ FnReturned("_filter_posts_by_recency") => sc.out.t # "raised"

(***************************************************************************)
(* NAPW over all combinations of fields (SpecFunctions)                    *)
(***************************************************************************)
\* the score by the number of fields present, for 0, 1, 2 and 3 fields
PlainNAPWScores == <<0, 1, 3, 6>>

\* C25: _NAPW_completeness_scoring returns 10 if and only if all four of
\* name, address, phone and website are present; with fewer than four and a
\* website on '.business.site', 'facebook.com', 'instagram.com' or
\* 'linkedin.com' it returns 8 however many other fields are present, the
\* website alone included; otherwise 6, 3, 1, 0 for 3, 2, 1, 0 fields.
C25_NAPWPrecedence ==
    FnReturned("_NAPW_completeness_scoring") =>
       LET present == Cardinality(PresentFields(sc.arg)) IN
       /\ (sc.out = Ret(10)) <=> (present = 4)
       /\ (present < 4 /\ SpecialSite(sc.arg)) => sc.out = Ret(8)
       /\ (present < 4 /\ ~SpecialSite(sc.arg)) => sc.out = Ret(PlainNAPWScores[present + 1])

\* C25 witness: the website, on facebook.com, is the only field present, and
\* the call returned 8
C25_Witness ==
    /\ FnReturned("_NAPW_completeness_scoring")
    /\ PresentFields(sc.arg) = {"website"}
    /\ contains(sc.arg.website.s, <<"f","a","c","e","b","o","o","k",".","c","o","m">>)
    /\ sc.out = Ret(8)

(***************************************************************************)
(* The scan of the photo gallery (SpecFunctions)                           *)
(***************************************************************************)
\* processing the thumbnail failed: the click or the search for the uploader
\* container raised, a timeout or another exception
PhotoFailed(thumbnail) == thumbnail.click # "ok" \/ thumbnail.container = "error"

\* C26: when processing one photo fails, by a timeout or any other exception,
\* the scan goes on with the next photo and the failed photo is recorded with
\* uploader 'Owner', so that _get_photo_counts counts it in owner_photo_count.
C26_PerPhotoFailureIsOwner ==
    FnReturned("get_attributions_by_navigation") =>
       LET failed == {i \in 1..Len(sc.arg.l) : PhotoFailed(sc.arg.l[i])}
           counts == _get_photo_counts(Str(s_Joe), sc.out.v.l)
       IN /\ Len(sc.out.v.l) = Len(sc.arg.l)
          /\ \A i \in failed : sc.out.v.l[i] = Attribution(Str(<<"O","w","n","e","r">>))
          /\ counts.owner_photo_count >= Cardinality(failed)

(***************************************************************************)
(* The merge of the branch results (SpecAnalyze)                           *)
(***************************************************************************)
\* the result of a branch as analyze receives it: what the worker returned,
\* or the default when the branch was not submitted, timed out or broke
BranchResult(branch) ==
    IF branch \in an.futures /\ branch \notin an.timed_out /\ thr[branch].st = "done"
    THEN thr[branch].val
    ELSE <<>>

\* C24: for given results of the reviews, social-links and photo branches the
\* record analyze returns is the same whatever the order in which the
\* branches started and completed: each field of the record is computed from
\* the result of its own branch and from nothing another branch wrote.
C24_MergeOrderIndependent ==
    Succeeded =>
       an.result.data =
          ResultData([an EXCEPT !.all_reviews = BranchResult("reviews"),
                                !.social_links = BranchResult("social"),
                                !.photo_attributions = BranchResult("photos")])

\* C24 witness: the three branches each delivered a result that is not the
\* default, and the record holds all three
C24_Witness ==
    /\ Succeeded
    /\ BranchResult("reviews") # <<>>
    /\ BranchResult("social") # <<>>
    /\ BranchResult("photos") # <<>>
    /\ an.result.data.recent_reviews_in_last_month_count > 0
    /\ an.result.data.social_links = thr.social.val
    /\ an.result.data.total_photos_analyzed = Len(thr.photos.val)
(***************************************************************************)
(* Properties of the job store (SpecJobs)                                  *)
(***************************************************************************)
\* check_job_status has returned to its caller
Polled == sc.pc = "returned" /\ sc.fn = "check_job_status"

\* GET /check-status has answered
Answered == sc.pc = "returned" /\ sc.fn = "get_job_status"

HasData(result) == "data" \in DOMAIN result /\ result.data # NoneV

\* the stage of a status in Pending -> Analysis Started -> Analyzing ->
\* Writing the Analysis -> (Analysis Finished | Analysis Failed)
Stage(status) ==
    CASE status = "Pending" -> 1
      [] status = "Analysis Started" -> 2
      [] status = "Analyzing" -> 3
      [] status = "Writing the Analysis" -> 4
      [] status \in {"Analysis Finished", "Analysis Failed"} -> 5

TerminalStatuses == {"Analysis Finished", "Analysis Failed"}

\* C22: over every update_job_status call and PUT /update-status request the
\* stored status of a job never moves to an earlier stage of the lifecycle,
\* and a status that is Analysis Finished or Analysis Failed stays as it is.
C22_LifecycleForwardOnly ==
    [][\A i \in 1..Len(db.jobs) :
          /\ Stage(db'.jobs[i].status) >= Stage(db.jobs[i].status)
          /\ db.jobs[i].status \in TerminalStatuses
                => db'.jobs[i].status = db.jobs[i].status]_vars

\* C23: check_job_status and GET /check-status give a data payload only with
\* the status Analysis Finished; a job id with no row gives "not_found"
\* (HTTP 404), and a job id with a row never does.
C23_PollingPayload ==
    /\ Polled =>
          /\ HasData(sc.out) => sc.out.status = "Analysis Finished"
          /\ sc.seen = <<>> => sc.out.status = "not_found"
          /\ sc.seen # <<>> => sc.out.status # "not_found"
    /\ Answered =>
          /\ sc.seen = <<>> => sc.out = HTTPException(404, "Job not found")
          /\ sc.seen # <<>> =>
                /\ sc.out.t = "JobstatusResponse"
                /\ sc.out.data # NoneV => sc.out.status = "Analysis Finished"

\* C29: the status check_job_status reports for a job that has a row is the
\* status stored in that row when it was looked up; in particular it reports
\* Analysis Failed only for a job whose stored status is Analysis Failed.
C29_PolledStatusIsStored ==
    (Polled /\ sc.seen # <<>>) => sc.out.status = sc.seen[1].status

\* C30 as stated: the data check_job_status returns for a finished job is the
\* record written by the analysis of that same job.
C30_OwnRecord ==
    (Polled /\ HasData(sc.out)) => sc.out.data = AnalysisRecord(sc.seen[1])

\* C30: the data check_job_status returns for a finished job is the row the
\* result table holds for the job's place_id: the record most recently
\* upserted for that place_id, by the analysis of any job.
C30_LatestRecordOfPlace ==
    (Polled /\ HasData(sc.out)) =>
        /\ sc.out.status = "Analysis Finished"
        /\ sc.out.data.d["place_id"] = sc.out.place_id
        /\ sc.out.data \in db.upserted

\* C30: two jobs were created for one place_id, and the poll of the finished
\* one returned the record the other one wrote
C30_Witness ==
    /\ Polled
    /\ HasData(sc.out)
    /\ \E i \in 1..Len(db.jobs) :
          /\ db.jobs[i].id # sc.arg.job_id
          /\ db.jobs[i].place_id = sc.out.place_id
          /\ sc.out.data = AnalysisRecord(db.jobs[i])

====
